---- MODULE Spec2Model ----
(***************************************************************************)
(* State-machine model of the EV3 Bluetooth client library                 *)
(* (src/EV3_RobotControl/btcomm.c).  One action per API function; a frame  *)
(* is the sequence of bytes handed to write(), a reply is the contents of  *)
(* the reply buffer after read().  Byte i of a C buffer is element i+1 of  *)
(* the sequence that models it.  The converter program                     *)
(* (src/rsfConverter.c) is modelled by the second specification, SpecConv. *)
(*                                                                         *)
(* Build assumptions: little-endian host (the counter and length bytes     *)
(* are taken by aliasing an int), plain char is signed.                    *)
(***************************************************************************)
EXTENDS Integers, Sequences, FiniteSets, TLC

\* ------------------------------------------------------------------------
\* Bounds of the exploration
\* ------------------------------------------------------------------------
MaxCounter == 2
MaxChunks == 4
MaxSegments == 4

\* ------------------------------------------------------------------------
\* Program constants
\* ------------------------------------------------------------------------
PARTITION_SIZE == 1017
CMD_SIZE == 1024
MOTOR_A == 1
MOTOR_B == 2
MOTOR_C == 4
MOTOR_D == 8
ToneRows == 50

\* Values of bytecodes.h / c_com.h (vendor headers, not part of src/)
opOUTPUT_TIME_POWER == 173
opTIMER_WAIT == 133
opTIMER_READY == 134
opINPUT_DEVICE == 153
opINPUT_READEXT == 158
opUI_WRITE == 130
opUI_DRAW == 132
opSOUND == 148
GET_TYPEMODE == 5
READY_PCT == 27
READY_RAW == 28
DATA_RAW == 18
PLAY == 2
LED == 27
BMPFILE == 28
UPDATE == 0
STORE == 25
RESTORE == 26
LCS == 132
SYSTEM_COMMAND_REPLY == 1
SYSTEM_REPLY == 3
BEGIN_DOWNLOAD == 146
CONTINUE_DOWNLOAD == 147
LIST_FILES == 153
SUCCESS == 0
END_OF_FILE == 8
LED_BLACK == 0
LED_GREEN == 1
LED_RED == 2
LED_ORANGE == 3
LED_GREEN_FLASH == 4
LED_RED_FLASH == 5
LED_ORANGE_FLASH == 6
LED_GREEN_PULSE == 7
LED_RED_PULSE == 8
LED_ORANGE_PULSE == 9

\* ------------------------------------------------------------------------
\* Bytes and operand macros
\* ------------------------------------------------------------------------
\* low-order byte of an int as stored in an unsigned char (two's complement)
UByte(v) == v % 256

\* value of a byte read through a (signed) char
SChar(b) == IF b >= 128 THEN b - 256 ELSE b

LX_byte1(v) == v % 256
LX_byte2(v) == (v \div 256) % 256
LX_byte3(v) == (v \div 65536) % 256
LX_byte4(v) == (v \div 16777216) % 256
LC0(v) == v % 64
LV0(v) == (v % 32) + 64
GV0(v) == (v % 32) + 96
LC1_byte0 == 129
LC2_byte0 == 130

\* cmd_string[2], cmd_string[3]: the two low bytes of the int counter
CounterLo(c) == c % 256
CounterHi(c) == (c \div 256) % 256

\* byte i (C index) of a buffer
B(f, i) == f[i + 1]

LenField(f) == B(f, 0) + 256 * B(f, 1)
CtrField(f) == B(f, 2) + 256 * B(f, 3)

Min(a, b) == IF a < b THEN a ELSE b

Zeros(n) == [i \in 1..n |-> 0]

\* strnlen(s, n) on a NUL-free character sequence
strnlen(s, n) == Min(Len(s), n)

\* strncmp(a, b, n) = 0, both strings NUL-terminated
RECURSIVE strncmp_eq(_, _, _)
strncmp_eq(a, b, n) ==
  IF n = 0 THEN TRUE
  ELSE LET ca == IF a = <<>> THEN 0 ELSE Head(a)
           cb == IF b = <<>> THEN 0 ELSE Head(b)
       IN IF ca # cb THEN FALSE
          ELSE IF ca = 0 THEN TRUE
          ELSE strncmp_eq(Tail(a), Tail(b), n - 1)

\* ------------------------------------------------------------------------
\* State
\* ------------------------------------------------------------------------
VARIABLES
  message_id_counter, \* the global int counter
  socket,             \* "none" | "open" | "failed" | "closed"
  op,                 \* name of the API function that ran last
  ret,                \* <<value>> returned by it, <<>> for void / not yet returned
  checkFailed,        \* the last call's own argument check rejected the call
  sent,               \* frames handed to write() by the last step, in order
  nreads,             \* read() calls made by the last step
  reply,              \* reply buffer after the last read()
  readOk,             \* the last read() delivered a reply frame
  prevCtr,            \* counter field of the last frame written before this step, -1 if none
  firstCtr,           \* counter field of the first frame of the current session, -1 if none
  oob,                \* C indices the last step wrote outside its command buffer
  ctr0,               \* message_id_counter when the last call was entered
  pc,                 \* "idle" | "upload" (inside BT_upload_file's while loop)
  up,                 \* locals of the BT_upload_file call in progress / last finished
  args,               \* arguments of the API call that ran last
  writeOk,            \* no write() of the last step reported an error
  conv,               \* the converter program (src/rsfConverter.c), see below
  player              \* the player program (src/rsfPlayer.c), see below

vars == <<message_id_counter, socket, op, ret, checkFailed, sent,
          nreads, reply, readOk, prevCtr, firstCtr, oob, ctr0, pc, up,
          args, writeOk, conv, player>>

\* the state of the two programs built on the library
progvars == <<conv, player>>

\* BT_upload_file: dest, the source file (its length at stat() time and
\* whether fopen() succeeds), the locals size / remainder / handle / buffer,
\* the file position, and a record of the frames of this upload: the size
\* declared in BEGIN_DOWNLOAD, the subcommand byte of every frame, the
\* payload length and file offset of every CONTINUE_DOWNLOAD, whether every
\* fread() was complete, whether every read() delivered a reply, whether
\* the call ran through its loop to the final return, the state of the
\* FILE *fp: "none" before fopen(), "open" after it, "closed" after fclose(),
\* whether a CONTINUE_DOWNLOAD was sent after the brick had acknowledged
\* an earlier one with END_OF_FILE, and whether fread() has returned 0 (the
\* file ended before `size` bytes were read; every later fread returns 0)
NoUpload ==
  [dest |-> <<>>, src |-> [size |-> 0, readable |-> TRUE], fp |-> "none",
   afterEof |-> FALSE, stalled |-> FALSE,
   size |-> 0, remainder |-> 0, handle |-> 0, buffer |-> <<>>, pos |-> 0,
   declared |-> 0, cmds |-> <<>>, chunks |-> <<>>, offs |-> <<>>,
   full |-> TRUE, acked |-> TRUE, done |-> FALSE]

\* the converter before main() runs: the length of the .raw file the
\* transcoder will leave, argc, the offset of in_fd, segment_cnt, size, the
\* segment files written so far (number in the file name, the 8 header
\* bytes, offset in the raw stream of the first sample written and number
\* of samples written, length of the file on disk), the exit status once
\* main() has returned, the length of the segment files an earlier run left
\* on disk, the loop variable i of the upload loop and the values the
\* BT_upload_file calls returned
NoConv ==
  [pc |-> "start", raw |-> 0, argc |-> 0, pos |-> 0, segment_cnt |-> 0,
   size |-> 0, files |-> <<>>, exit |-> <<>>,
   prior |-> 0, i |-> 0, results |-> <<>>]

\* the player before main() runs: argv[2], the numbers in argv[3] and
\* argv[4], the loop variable i, the <<path, volume>> of every
\* BT_play_sound_file call made so far, the seconds slept after each of
\* them, whether BT_close was called, and the exit status
NoPlayer ==
  [pc |-> "start", name |-> <<>>, segment_cnt |-> 0, volumn |-> 0, i |-> 0,
   calls |-> <<>>, sleeps |-> <<>>, closed |-> FALSE, exit |-> <<>>]

\* the library before any call
LibInit ==
  /\ message_id_counter = 1
  /\ socket = "none"
  /\ op = "none"
  /\ ret = <<>>
  /\ checkFailed = FALSE
  /\ sent = <<>>
  /\ nreads = 0
  /\ reply = <<>>
  /\ readOk = FALSE
  /\ prevCtr = -1
  /\ firstCtr = -1
  /\ oob = {}
  /\ ctr0 = 1
  /\ pc = "idle"
  /\ up = NoUpload
  /\ args = <<>>
  /\ writeOk = TRUE

Init ==
  /\ LibInit
  /\ conv = NoConv
  /\ player = NoPlayer

\* ------------------------------------------------------------------------
\* Transport: replies of the brick and outcomes of read()
\* ------------------------------------------------------------------------
ReplyLen == 17

\* <<tag, byte 5, byte 6>> of the replies the brick gives: to a direct
\* command a direct reply or a direct error, to a system command a system
\* reply with status SUCCESS / END_OF_FILE / other or a system error
DirectShapes == { <<2, 1, 0>>, <<2, 0, 0>>, <<4, 0, 0>> }

SystemShapes == { <<3, 0, 0>>, <<3, 0, 8>>, <<3, 0, 5>>, <<5, 0, 0>> }

ReplyShapes(frame) ==
  IF B(frame, 4) = SYSTEM_COMMAND_REPLY THEN SystemShapes ELSE DirectShapes

\* a reply frame of the brick to the request `frame`: echoed counter, tag in
\* byte 4, payload/status bytes after it
BrickReply(frame, b4, b5, b6) ==
  <<15, 0, B(frame, 2), B(frame, 3), b4, b5, b6, 0, 7,
    244, 3, 0, 0, 252, 3, 0, 0>>

\* <<tag, byte 5, byte 6>> of the replies to earlier requests that can still
\* be waiting in the socket: a direct reply and a system reply
StrayShapes == { <<2, 1, 0>>, <<3, 0, 0>> }

\* a reply frame that carries the counter before the request's (a frame
\* answering an earlier request), not the request's own
StrayReply(frame, b4, b5, b6) ==
  LET c == (CtrField(frame) + 65535) % 65536
  IN <<15, 0, c % 256, c \div 256, b4, b5, b6, 0, 7,
       244, 3, 0, 0, 252, 3, 0, 0>>

\* values the brick can place in the global memory a direct command
\* reserved: 4 bytes for the gyro read, 12 for the RGB read
SensorData(frame) ==
  IF B(frame, 4) = 0 /\ B(frame, 5) = 4 /\ B(frame, 6) = 0
    THEN { <<255, 255, 255, 255>>, <<0, 0, 0, 128>>, <<1, 2, 3, 4>> }
  ELSE IF B(frame, 4) = 0 /\ B(frame, 5) = 12 /\ B(frame, 6) = 0
    THEN { <<4, 0, 0, 0, 244, 3, 0, 0, 252, 3, 0, 0>>,
           <<1, 2, 3, 4, 255, 255, 255, 127, 0, 0, 0, 0>> }
  ELSE {}

\* a direct reply to `frame` that returns the global memory `data`
DataReply(frame, data) ==
  LET r == <<3 + Len(data), 0, B(frame, 2), B(frame, 3), 2>> \o data
  IN r \o Zeros(ReplyLen - Len(r))

\* what read() can deliver after the request `frame`
BrickReplies(frame) ==
  { BrickReply(frame, t[1], t[2], t[3]) : t \in ReplyShapes(frame) }
    \cup { StrayReply(frame, t[1], t[2], t[3]) : t \in StrayShapes }
    \cup { DataReply(frame, d) : d \in SensorData(frame) }

\* contents an uninitialised reply buffer can have
Garbage == { Zeros(ReplyLen), <<4, 0, 0, 0, 2, 1, 0, 0, 0, 0, 0, 0, 0, 0, 0, 0, 0>> }

\* write(*socket_id, cmd, n); read(*socket_id, reply, 1023): the frame goes
\* out and a reply frame arrives, or the read reports an error or end of
\* stream and leaves the buffer as it was (one of `before`), or the write
\* already failed and no reply comes; neither return value is looked at
Exchange(frames, before) ==
  /\ sent' = frames
  /\ nreads' = Len(sent')
  /\ \/ /\ writeOk' = TRUE
        /\ readOk' = TRUE
        /\ reply' \in BrickReplies(sent'[Len(sent')])
     \/ /\ writeOk' \in BOOLEAN
        /\ readOk' = FALSE
        /\ reply' \in before
  /\ prevCtr' = IF sent = <<>> THEN prevCtr ELSE CtrField(sent[Len(sent)])
  /\ firstCtr' = IF firstCtr = -1 THEN CtrField(sent'[1]) ELSE firstCtr

\* a call that returns before any I/O
NoIO ==
  /\ sent' = <<>>
  /\ nreads' = 0
  /\ reply' = <<>>
  /\ readOk' = FALSE
  /\ writeOk' = TRUE
  /\ prevCtr' = IF sent = <<>> THEN prevCtr ELSE CtrField(sent[Len(sent)])
  /\ UNCHANGED <<firstCtr, message_id_counter>>

\* the caller may invoke an API function: a session is open, no call is
\* in progress
Ready ==
  /\ socket = "open"
  /\ pc = "idle"
  /\ message_id_counter <= MaxCounter

\* ------------------------------------------------------------------------
\* Session
\* ------------------------------------------------------------------------
BT_open_call(connected) ==
  /\ socket \in {"none", "closed"}
  /\ pc = "idle"
  /\ op' = "BT_open"
  /\ args' = <<connected>>
  /\ IF connected
       THEN /\ socket' = "open"
            /\ ret' = <<0>>
       ELSE /\ socket' = "failed"
            /\ ret' = <<-1>>
  /\ checkFailed' = FALSE
  /\ oob' = {}
  /\ sent' = <<>>
  /\ nreads' = 0
  /\ reply' = <<>>
  /\ readOk' = FALSE
  /\ prevCtr' = IF sent = <<>> THEN prevCtr ELSE CtrField(sent[Len(sent)])
  /\ firstCtr' = -1
  /\ writeOk' = TRUE
  /\ ctr0' = message_id_counter
  /\ up' = NoUpload
  /\ UNCHANGED <<message_id_counter, pc>>

\* a call of BT_open by a caller other than the two programs
BT_open(connected) == BT_open_call(connected) /\ UNCHANGED progvars

BT_close_call ==
  /\ socket \in {"open", "failed"}
  /\ pc = "idle"
  /\ op' = "BT_close"
  /\ args' = <<>>
  /\ socket' = "closed"
  /\ ret' = <<0>>
  /\ checkFailed' = FALSE
  /\ oob' = {}
  /\ NoIO
  /\ ctr0' = message_id_counter
  /\ up' = NoUpload
  /\ UNCHANGED pc

BT_close == BT_close_call /\ UNCHANGED progvars

\* ------------------------------------------------------------------------
\* Common shape of an API call
\* ------------------------------------------------------------------------
\* the call's own argument check fails: it returns r before any I/O
Reject(r) ==
  /\ checkFailed' = TRUE
  /\ ret' = <<r>>
  /\ oob' = {}
  /\ NoIO

\* `if (reply[4] == 0x02) ... else return (-1); return (0);`
StatusResult(rep) == IF SChar(B(rep, 4)) = 2 THEN 0 ELSE -1

\* a call that runs from entry to return in one step; the locals of an
\* earlier BT_upload_file call are gone
IdleCall ==
  /\ ctr0' = message_id_counter
  /\ up' = NoUpload
  /\ UNCHANGED <<socket, pc>>

Idle == IdleCall /\ UNCHANGED progvars

\* ------------------------------------------------------------------------
\* Name and tones
\* ------------------------------------------------------------------------
\* "R2D2", "", a 12-character and a 14-character name
Names ==
  { <<82, 50, 68, 50>>, <<>>, [i \in 1..12 |-> 97],
    <<116, 111, 111, 95, 108, 111, 110, 103, 95, 110, 97, 109, 101, 33>> }

\* variant: the length does not count the terminating NUL
setEV3name_len_nonul(name) == Len(name) + 8

\* the command BT_setEV3name writes: cmd_prefix[0..9], the name, its NUL,
\* with the length and counter fields patched in; len + 2 bytes go out
setEV3name_len(name) == Len(name) + 9

setEV3name_cmd(name, ctr) ==
  LET len == setEV3name_len(name)
      buf == <<0, 0, 0, 0, 0, 0, 0, 212, 8, 132>> \o name \o <<0>>
      out == [buf EXCEPT ![1] = LX_byte1(len), ![2] = LX_byte2(len),
                         ![3] = CounterLo(ctr), ![4] = CounterHi(ctr)]
  IN SubSeq(out, 1, len + 2)

BT_setEV3name(name) ==
  /\ Ready
  /\ op' = "BT_setEV3name"
  /\ args' = <<name>>
  /\ IF Len(name) > 12
       THEN Reject(-1)
       ELSE /\ Exchange(<<setEV3name_cmd(name, message_id_counter)>>, {Zeros(ReplyLen)})
            /\ message_id_counter' = message_id_counter + 1
            /\ checkFailed' = FALSE
            /\ oob' = {1024}
            /\ ret' = <<0>>
  /\ Idle

\* tone_data[50][3]: the given rows, then rows of -1
ToneTable(rows) ==
  [i \in 1..ToneRows |-> IF i <= Len(rows) THEN rows[i] ELSE <<-1, -1, -1>>]

ToneInputs ==
  { ToneTable(<<>>),
    ToneTable(<<<<262, 250, 1>>>>),
    ToneTable(<<<<20, 1, 0>>, <<20000, 5000, 63>>>>),
    ToneTable([i \in 1..ToneRows |-> <<440, 100, 10>>]),
    ToneTable(<<<<19, 100, 10>>>>),
    ToneTable(<<<<262, 250, 1>>, <<20001, 100, 10>>>>),
    ToneTable(<<<<262, 5001, 1>>>>),
    ToneTable(<<<<262, 250, 64>>>>),
    ToneTable(<<<<440, 100, 10>>, <<440, 100, -1>>, <<880, 100, 10>>>>) }

\* rows before the first one whose frequency or duration is -1
RECURSIVE ToneCount(_, _)
ToneCount(t, i) ==
  IF i > ToneRows THEN ToneRows
  ELSE IF t[i][1] = -1 \/ t[i][2] = -1 THEN i - 1
  ELSE ToneCount(t, i + 1)

\* variant: frequencies from 19 Hz pass the pre-check
ToneBad_from19(t) ==
  \E i \in 1..ToneCount(t, 1) :
     \/ t[i][1] < 19 \/ t[i][1] > 20000
     \/ t[i][2] < 1 \/ t[i][2] > 5000
     \/ t[i][3] < 0 \/ t[i][3] > 63

\* the pre-check loop finds a row out of range
ToneBad(t) ==
  \E i \in 1..ToneCount(t, 1) :
     \/ t[i][1] < 20 \/ t[i][1] > 20000
     \/ t[i][2] < 1 \/ t[i][2] > 5000
     \/ t[i][3] < 0 \/ t[i][3] > 63

\* variant: frequency and duration stored high byte first
ToneBytes_be(row) ==
  <<148, 1, UByte(row[3]), 130, LX_byte2(row[1]), LX_byte1(row[1]),
    130, LX_byte2(row[2]), LX_byte1(row[2]), 150>>

\* the 10 bytes emitted for one tone
ToneBytes(row) ==
  <<148, 1, UByte(row[3]), 130, LX_byte1(row[1]), LX_byte2(row[1]),
    130, LX_byte1(row[2]), LX_byte2(row[2]), 150>>

RECURSIVE TonePayload(_, _, _)
TonePayload(t, i, n) ==
  IF i > n THEN <<>> ELSE ToneBytes(t[i]) \o TonePayload(t, i + 1, n)

tone_len(t) == 5 + 10 * ToneCount(t, 1)

\* variant: all 8 bytes of cmd_prefix reach the buffer, type 0x80 included
tone_cmd_prefix8(t, ctr) ==
  LET len == tone_len(t)
      buf == <<LX_byte1(len), LX_byte2(len), CounterLo(ctr), CounterHi(ctr), 128, 0, 0>>
             \o TonePayload(t, 1, ToneCount(t, 1))
  IN SubSeq(buf \o Zeros(CMD_SIZE), 1, len + 2)

\* strcpy of cmd_prefix copies only its leading NUL: the buffer stays zero
tone_cmd(t, ctr) ==
  LET len == tone_len(t)
      buf == <<LX_byte1(len), LX_byte2(len), CounterLo(ctr), CounterHi(ctr), 0, 0, 0>>
             \o TonePayload(t, 1, ToneCount(t, 1))
  IN SubSeq(buf \o Zeros(CMD_SIZE), 1, len + 2)

BT_play_tone_sequence(tone_data) ==
  /\ Ready
  /\ op' = "BT_play_tone_sequence"
  /\ args' = <<tone_data>>
  /\ IF ToneBad(tone_data)
       THEN Reject(0)
       ELSE /\ Exchange(<<tone_cmd(tone_data, message_id_counter)>>, Garbage)
            /\ message_id_counter' = message_id_counter + 1
            /\ checkFailed' = FALSE
            /\ oob' = {}
            /\ ret' = <<0>>
  /\ Idle

\* ------------------------------------------------------------------------
\* Motors
\* ------------------------------------------------------------------------
\* <<port_ids, power>> as passed in the two char parameters
MotorArgs ==
  { <<1, 50>>, <<15, 100>>, <<9, -100>>, <<1, 101>>, <<1, -101>>, <<16, 50>> }

\* variant: the port mask of opOUTPUT_START is left at 0
motor_port_start_cmd_nomask(port_ids, power, ctr) ==
  <<13, 0, CounterLo(ctr), CounterHi(ctr), 0, 0, 0,
    164, 0, UByte(port_ids), 129, UByte(power), 166, 0, 0>>

motor_port_start_cmd(port_ids, power, ctr) ==
  <<13, 0, CounterLo(ctr), CounterHi(ctr), 0, 0, 0,
    164, 0, UByte(port_ids), 129, UByte(power), 166, 0, UByte(port_ids)>>

BT_motor_port_start(port_ids, power) ==
  /\ Ready
  /\ op' = "BT_motor_port_start"
  /\ args' = <<port_ids, power>>
  /\ IF power > 100 \/ power < -100 \/ port_ids > 15
       THEN Reject(0)
       ELSE /\ Exchange(<<motor_port_start_cmd(port_ids, power, message_id_counter)>>, Garbage)
            /\ message_id_counter' = message_id_counter + 1
            /\ checkFailed' = FALSE
            /\ oob' = {}
            /\ ret' = <<StatusResult(reply')>>
  /\ Idle

\* <<port_ids, brake_mode>>
StopArgs == { <<1, 0>>, <<15, 1>>, <<16, 0>>, <<1, 2>> }

\* variant: the length byte counts the whole command
motor_port_stop_cmd_whole(port_ids, brake_mode, ctr) ==
  <<11, 0, CounterLo(ctr), CounterHi(ctr), 0, 0, 0,
    163, 0, UByte(port_ids), UByte(brake_mode)>>

motor_port_stop_cmd(port_ids, brake_mode, ctr) ==
  <<9, 0, CounterLo(ctr), CounterHi(ctr), 0, 0, 0,
    163, 0, UByte(port_ids), UByte(brake_mode)>>

BT_motor_port_stop(port_ids, brake_mode) ==
  /\ Ready
  /\ op' = "BT_motor_port_stop"
  /\ args' = <<port_ids, brake_mode>>
  /\ IF port_ids > 15 \/ (brake_mode # 0 /\ brake_mode # 1)
       THEN Reject(0)
       ELSE /\ Exchange(<<motor_port_stop_cmd(port_ids, brake_mode, message_id_counter)>>, Garbage)
            /\ message_id_counter' = message_id_counter + 1
            /\ checkFailed' = FALSE
            /\ oob' = {}
            /\ ret' = <<StatusResult(reply')>>
  /\ Idle

\* bitwise OR of two port masks in 0..15
RECURSIVE BitOr(_, _)
BitOr(a, b) ==
  IF a = 0 THEN b
  ELSE IF b = 0 THEN a
  ELSE (IF a % 2 = 1 \/ b % 2 = 1 THEN 1 ELSE 0) + 2 * BitOr(a \div 2, b \div 2)

\* char port_ids = MOTOR_A | MOTOR_B | MOTOR_C | MOTOR_D
all_stop_port_ids == BitOr(BitOr(MOTOR_A, MOTOR_B), BitOr(MOTOR_C, MOTOR_D))

BrakeModes == {0, 1, 2}

\* BT_all_stop has no argument check
BT_all_stop(brake_mode) ==
  /\ Ready
  /\ op' = "BT_all_stop"
  /\ args' = <<brake_mode>>
  /\ Exchange(<<motor_port_stop_cmd(all_stop_port_ids, brake_mode, message_id_counter)>>, Garbage)
  /\ message_id_counter' = message_id_counter + 1
  /\ checkFailed' = FALSE
  /\ oob' = {}
  /\ ret' = <<StatusResult(reply')>>
  /\ Idle

\* <<lport, rport, power>>
DriveArgs == { <<1, 8, 50>>, <<2, 4, -100>>, <<1, 8, 101>>, <<9, 1, 50>> }

BT_drive(lport, rport, power) ==
  /\ Ready
  /\ op' = "BT_drive"
  /\ args' = <<lport, rport, power>>
  /\ IF power > 100 \/ power < -100 \/ lport > 8 \/ rport > 8
       THEN Reject(-1)
       ELSE /\ Exchange(<<motor_port_start_cmd(BitOr(lport, rport), power, message_id_counter)>>, Garbage)
            /\ message_id_counter' = message_id_counter + 1
            /\ checkFailed' = FALSE
            /\ oob' = {}
            /\ ret' = <<StatusResult(reply')>>
  /\ Idle

\* <<lport, lpower, rport, rpower>>
TurnArgs == { <<1, 100, 2, 90>>, <<1, -50, 8, 50>>, <<1, 101, 2, 0>>, <<1, 0, 2, 101>>,
              <<9, 10, 2, 10>>, <<1, 10, 2, -101>> }

turn_cmd(lport, lpower, rport, rpower, ctr) ==
  <<18, 0, CounterLo(ctr), CounterHi(ctr), 0, 0, 0,
    164, 0, UByte(lport), 129, UByte(lpower),
    164, 0, UByte(rport), 129, UByte(rpower),
    166, 0, BitOr(UByte(lport), UByte(rport))>>

\* the check tests lpower < -100 twice and never rpower < -100
BT_turn(lport, lpower, rport, rpower) ==
  /\ Ready
  /\ op' = "BT_turn"
  /\ args' = <<lport, lpower, rport, rpower>>
  /\ IF lpower > 100 \/ lpower < -100 \/ rpower > 100 \/ lpower < -100
        \/ lport > 8 \/ rport > 8
       THEN Reject(-1)
       ELSE /\ Exchange(<<turn_cmd(lport, lpower, rport, rpower, message_id_counter)>>, Garbage)
            /\ message_id_counter' = message_id_counter + 1
            /\ checkFailed' = FALSE
            /\ oob' = {}
            /\ ret' = <<StatusResult(reply')>>
  /\ Idle

\* <<port_id, power, ramp_up_time, run_time, ramp_down_time>>
TimedArgs == { <<1, 50, 100, 1000, 100>>, <<8, -100, 0, 300, 0>>,
               <<1, 101, 0, 10, 0>>, <<9, 50, 0, 10, 0>> }

timed_motor_port_start_cmd(port_id, power, ramp_up_time, run_time, ramp_down_time, ctr) ==
  <<LC0(20), 0, CounterLo(ctr), CounterHi(ctr), 0, 0, 0,
    opOUTPUT_TIME_POWER, 0, UByte(port_id), 129, UByte(power),
    LC2_byte0, LX_byte1(ramp_up_time), LX_byte2(ramp_up_time),
    LC2_byte0, LX_byte1(run_time), LX_byte2(run_time),
    LC2_byte0, LX_byte1(ramp_down_time), LX_byte2(ramp_down_time), 0>>

\* both branches of the second status test return, so the increment after
\* it is never reached
timed_motor_port_start_counter(ctr, rep) == ctr

timed_motor_port_start_result(rep) ==
  IF SChar(B(rep, 4)) = 2
    THEN (IF SChar(B(rep, 5)) # 0 THEN 1 ELSE 0)
    ELSE -1

BT_timed_motor_port_start(port_id, power, ramp_up_time, run_time, ramp_down_time) ==
  /\ Ready
  /\ op' = "BT_timed_motor_port_start"
  /\ args' = <<port_id, power, ramp_up_time, run_time, ramp_down_time>>
  /\ IF power > 100 \/ power < -100 \/ port_id > 8
       THEN Reject(-1)
       ELSE /\ Exchange(<<timed_motor_port_start_cmd(port_id, power, ramp_up_time,
                            run_time, ramp_down_time, message_id_counter)>>, Garbage)
            /\ message_id_counter' = timed_motor_port_start_counter(message_id_counter, reply')
            /\ checkFailed' = FALSE
            /\ oob' = {}
            /\ ret' = <<timed_motor_port_start_result(reply')>>
  /\ Idle

\* <<port_id, power, time>>
TimedV2Args == { <<1, 50, 1000>>, <<8, -100, 300>>, <<1, -101, 10>>, <<9, 50, 10>> }

\* variant: the header reserves 4 bytes of local memory
timed_motor_port_start_v2_cmd_local4(port_id, power, time, ctr) ==
  <<LC0(24), 0, CounterLo(ctr), CounterHi(ctr), 0, 0, LC0(16),
    164, 0, UByte(port_id), 129, UByte(power), 166, 0, UByte(port_id),
    opTIMER_WAIT, LC2_byte0, LX_byte1(time), LX_byte2(time), LV0(0),
    opTIMER_READY, LV0(0), 163, 0, UByte(port_id), 0>>

timed_motor_port_start_v2_cmd(port_id, power, time, ctr) ==
  <<LC0(24), 0, CounterLo(ctr), CounterHi(ctr), 0, 0, LC0(40),
    164, 0, UByte(port_id), 129, UByte(power), 166, 0, UByte(port_id),
    opTIMER_WAIT, LC2_byte0, LX_byte1(time), LX_byte2(time), LV0(0),
    opTIMER_READY, LV0(0), 163, 0, UByte(port_id), 0>>

\* the nested BT_motor_port_start has incremented the counter to ctr; the
\* function's own increment is skipped when the reply is not a success
timed_motor_port_start_v2_counter(ctr, rep) ==
  IF SChar(B(rep, 4)) = 2 THEN ctr + 1 ELSE ctr

\* the call first runs BT_motor_port_start(port_id, power), whose result is
\* discarded, then sends its own frame with the incremented counter
BT_timed_motor_port_start_v2(port_id, power, time) ==
  /\ Ready
  /\ op' = "BT_timed_motor_port_start_v2"
  /\ args' = <<port_id, power, time>>
  /\ IF power > 100 \/ power < -100 \/ port_id > 8
       THEN Reject(-1)
       ELSE /\ Exchange(<<motor_port_start_cmd(port_id, power, message_id_counter),
                          timed_motor_port_start_v2_cmd(port_id, power, time,
                                                        message_id_counter + 1)>>, Garbage)
            /\ message_id_counter' =
                 timed_motor_port_start_v2_counter(message_id_counter + 1, reply')
            /\ checkFailed' = FALSE
            /\ oob' = {}
            /\ ret' = <<StatusResult(reply')>>
  /\ Idle

\* ------------------------------------------------------------------------
\* Sensors
\* ------------------------------------------------------------------------
SensorPorts == {0, 3, 9}

ZeroReply == {Zeros(ReplyLen)}

get_type_mode_cmd(sensor_port, ctr) ==
  <<11, 0, CounterLo(ctr), CounterHi(ctr), 0, 2, 0,
    opINPUT_DEVICE, GET_TYPEMODE, 0, UByte(sensor_port), GV0(0), GV0(1)>>

\* the port test only prints a message: there is no return in its branch
BT_get_type_mode(sensor_port) ==
  /\ Ready
  /\ op' = "BT_get_type_mode"
  /\ args' = <<sensor_port>>
  /\ Exchange(<<get_type_mode_cmd(sensor_port, message_id_counter)>>, ZeroReply)
  /\ message_id_counter' = message_id_counter + 1
  /\ checkFailed' = (sensor_port > 8)
  /\ oob' = {}
  /\ ret' = <<>>
  /\ Idle

\* variant: the touch sensor is read with READY_RAW
read_touch_sensor_cmd_raw(sensor_port, ctr) ==
  <<13, 0, CounterLo(ctr), CounterHi(ctr), 0, 1, 0,
    opINPUT_DEVICE, LC0(READY_RAW), 0, UByte(sensor_port), LC0(16), 0, LC0(1), GV0(0)>>

read_touch_sensor_cmd(sensor_port, ctr) ==
  <<13, 0, CounterLo(ctr), CounterHi(ctr), 0, 1, 0,
    opINPUT_DEVICE, LC0(READY_PCT), 0, UByte(sensor_port), LC0(16), 0, LC0(1), GV0(0)>>

read_touch_sensor_result(rep) ==
  IF SChar(B(rep, 4)) = 2
    THEN (IF SChar(B(rep, 5)) # 0 THEN 1 ELSE 0)
    ELSE -1

BT_read_touch_sensor(sensor_port) ==
  /\ Ready
  /\ op' = "BT_read_touch_sensor"
  /\ args' = <<sensor_port>>
  /\ IF sensor_port > 8
       THEN Reject(-1)
       ELSE /\ Exchange(<<read_touch_sensor_cmd(sensor_port, message_id_counter)>>, Garbage)
            /\ message_id_counter' = message_id_counter + 1
            /\ checkFailed' = FALSE
            /\ oob' = {}
            /\ ret' = <<read_touch_sensor_result(reply')>>
  /\ Idle

read_colour_sensor_cmd(sensor_port, ctr) ==
  <<13, 0, CounterLo(ctr), CounterHi(ctr), 0, 1, 0,
    opINPUT_DEVICE, LC0(READY_RAW), 0, UByte(sensor_port), LC0(29), LC0(2), LC0(1), GV0(0)>>

\* the failure branch only prints; reply[5] is returned in both cases
read_colour_sensor_result(rep) == SChar(B(rep, 5))

BT_read_colour_sensor(sensor_port) ==
  /\ Ready
  /\ op' = "BT_read_colour_sensor"
  /\ args' = <<sensor_port>>
  /\ IF sensor_port > 8
       THEN Reject(-1)
       ELSE /\ Exchange(<<read_colour_sensor_cmd(sensor_port, message_id_counter)>>, ZeroReply)
            /\ message_id_counter' = message_id_counter + 1
            /\ checkFailed' = FALSE
            /\ oob' = {}
            /\ ret' = <<read_colour_sensor_result(reply')>>
  /\ Idle

read_colour_sensor_RGB_cmd(sensor_port, ctr) ==
  <<LC0(15), 0, CounterLo(ctr), CounterHi(ctr), 0, 12, 0,
    opINPUT_DEVICE, LC0(READY_RAW), 0, UByte(sensor_port), LC0(29), LC0(4), LC0(3),
    GV0(0), GV0(4), GV0(8)>>

\* the 32-bit value assembled from four reply bytes, lowest at offset i, as
\* the int it is stored in (two's complement)
Int32At(rep, i) ==
  B(rep, i) + 256 * B(rep, i + 1) + 65536 * B(rep, i + 2)
    + 16777216 * SChar(B(rep, i + 3))

\* variant: the three values are taken from offsets 5, 6 and 7
read_colour_sensor_RGB_result_packed(rep) ==
  IF B(rep, 4) = 2
    THEN <<0, Int32At(rep, 5), Int32At(rep, 6), Int32At(rep, 7)>>
    ELSE <<-1>>

\* <<return value, RGB[0], RGB[1], RGB[2]>>, or <<-1>> with RGB untouched
read_colour_sensor_RGB_result(rep) ==
  IF B(rep, 4) = 2
    THEN <<0, Int32At(rep, 5), Int32At(rep, 9), Int32At(rep, 13)>>
    ELSE <<-1>>

BT_read_colour_sensor_RGB(sensor_port) ==
  /\ Ready
  /\ op' = "BT_read_colour_sensor_RGB"
  /\ args' = <<sensor_port>>
  /\ IF sensor_port > 8
       THEN Reject(-1)
       ELSE /\ Exchange(<<read_colour_sensor_RGB_cmd(sensor_port, message_id_counter)>>, ZeroReply)
            /\ message_id_counter' = message_id_counter + 1
            /\ checkFailed' = FALSE
            /\ oob' = {}
            /\ ret' = read_colour_sensor_RGB_result(reply')
  /\ Idle

read_ultrasonic_sensor_cmd(sensor_port, ctr) ==
  <<LC0(13), 0, CounterLo(ctr), CounterHi(ctr), 0, 1, 0,
    opINPUT_DEVICE, LC0(READY_RAW), 0, UByte(sensor_port), LC0(30), 0, LC0(1), GV0(0)>>

\* reply is unsigned char here
read_ultrasonic_sensor_result(rep) == IF B(rep, 4) = 2 THEN B(rep, 5) ELSE -1

BT_read_ultrasonic_sensor(sensor_port) ==
  /\ Ready
  /\ op' = "BT_read_ultrasonic_sensor"
  /\ args' = <<sensor_port>>
  /\ IF sensor_port > 8
       THEN Reject(-1)
       ELSE /\ Exchange(<<read_ultrasonic_sensor_cmd(sensor_port, message_id_counter)>>, ZeroReply)
            /\ message_id_counter' = message_id_counter + 1
            /\ checkFailed' = FALSE
            /\ oob' = {}
            /\ ret' = <<read_ultrasonic_sensor_result(reply')>>
  /\ Idle

read_gyro_sensor_cmd(sensor_port, ctr) ==
  <<LC0(13), 0, CounterLo(ctr), CounterHi(ctr), 0, 4, 0,
    opINPUT_READEXT, 0, UByte(sensor_port), LC0(0), LC0(-1), LC0(DATA_RAW), LC0(1), GV0(0)>>

\* variant: the angle is assembled only in the debug build and stays 0
read_gyro_sensor_result_noangle(rep) == IF B(rep, 4) = 2 THEN 0 ELSE -1

\* angle is assembled from reply[8] down to reply[5] by |= and <<= 8 on an
\* int, in both branches of #ifdef __BT_debug
read_gyro_sensor_result(rep) == IF B(rep, 4) = 2 THEN Int32At(rep, 5) ELSE -1

BT_read_gyro_sensor(sensor_port) ==
  /\ Ready
  /\ op' = "BT_read_gyro_sensor"
  /\ args' = <<sensor_port>>
  /\ IF sensor_port > 8
       THEN Reject(-1)
       ELSE /\ Exchange(<<read_gyro_sensor_cmd(sensor_port, message_id_counter)>>, ZeroReply)
            /\ message_id_counter' = message_id_counter + 1
            /\ checkFailed' = FALSE
            /\ oob' = {}
            /\ ret' = <<read_gyro_sensor_result(reply')>>
  /\ Idle

\* ------------------------------------------------------------------------
\* Sound file, LED, display
\* ------------------------------------------------------------------------
\* a path of n characters 'a'
PathOf(n) == [i \in 1..n |-> 97]

\* <<length of path, volume>>
SoundArgs == { <<5, 50>>, <<5, 101>>, <<1012, 101>> }

play_sound_file_cmd(path, volume, ctr) ==
  LET path_len == strnlen(path, 1011)
      buf == <<LX_byte1(12 + path_len + 1 - 2), LX_byte2(12 + path_len + 1 - 2),
               CounterLo(ctr), CounterHi(ctr), 0, 0, 0,
               opSOUND, PLAY, LC1_byte0, LX_byte1(volume), LCS>>
             \o SubSeq(path, 1, path_len)
  IN SubSeq(buf \o Zeros(CMD_SIZE), 1, 12 + path_len + 1)

BT_play_sound_file_call(path, volume) ==
  /\ Ready
  /\ op' = "BT_play_sound_file"
  /\ args' = <<path, volume>>
  /\ Exchange(<<play_sound_file_cmd(path, volume, message_id_counter)>>, ZeroReply)
  /\ message_id_counter' = message_id_counter + 1
  /\ checkFailed' = FALSE
  /\ oob' = {}
  /\ ret' = <<StatusResult(reply')>>
  /\ IdleCall

BT_play_sound_file(path, volume) ==
  BT_play_sound_file_call(path, volume) /\ UNCHANGED progvars

LedColours == {0, 1, 8, 9, 10}

set_LED_colour_cmd(colour, ctr) ==
  <<LC0(8), 0, CounterLo(ctr), CounterHi(ctr), 0, 0, 0, opUI_WRITE, LED, UByte(colour)>>

\* LED_RED_PULSE is missing from the list of accepted colours
LedAccepted ==
  { LED_BLACK, LED_GREEN, LED_RED, LED_ORANGE, LED_GREEN_FLASH, LED_RED_FLASH,
    LED_ORANGE_FLASH, LED_GREEN_PULSE, LED_ORANGE_PULSE }

BT_set_LED_colour(colour) ==
  /\ Ready
  /\ op' = "BT_set_LED_colour"
  /\ args' = <<colour>>
  /\ IF colour \notin LedAccepted
       THEN Reject(-1)
       ELSE /\ Exchange(<<set_LED_colour_cmd(colour, message_id_counter)>>, ZeroReply)
            /\ message_id_counter' = message_id_counter + 1
            /\ checkFailed' = FALSE
            /\ oob' = {}
            /\ ret' = <<StatusResult(reply')>>
  /\ Idle

\* <<colour, x_0, y_0, length of file_path>>
DrawArgs ==
  { <<1, 0, 0, 4>>, <<0, 177, 127, 1003>>, <<1, 10, 10, 1100>>,
    <<2, 0, 0, 4>>, <<0, 178, 0, 4>>, <<0, 0, 128, 4>>, <<0, -1, 0, 4>> }

draw_image_path_len(file_path) == strnlen(file_path, 1004)

\* number of bytes handed to write()
draw_image_write_len(file_path) == 20 + draw_image_path_len(file_path) + 1

\* bytes 0 .. 20 + path_len as the function stores them; `beyond` is what
\* write() finds at an index past the end of cmd_string[1024]
draw_image_from_file_cmd(colour, x_0, y_0, file_path, ctr, beyond) ==
  LET path_len == draw_image_path_len(file_path)
      buf == <<LX_byte1(20 + path_len - 2 + 1), LX_byte2(20 + path_len - 2 + 1),
               CounterLo(ctr), CounterHi(ctr), 0, 0, 0,
               opUI_DRAW, BMPFILE, LC1_byte0, LX_byte1(colour),
               LC2_byte0, LX_byte1(x_0), LX_byte2(x_0),
               LC2_byte0, LX_byte1(y_0), LX_byte2(y_0), LCS>>
             \o SubSeq(file_path, 1, path_len) \o <<0, opUI_DRAW, UPDATE>>
  IN [i \in 1..draw_image_write_len(file_path) |->
        IF i <= CMD_SIZE THEN buf[i] ELSE beyond]

\* indices of cmd_string the function stores to that lie outside the array
draw_image_oob(file_path) ==
  { i \in 0..(20 + draw_image_path_len(file_path)) : i >= CMD_SIZE }

\* what a read past the array can yield: the byte just stored, or another
BeyondBytes == {0, 195}

BT_draw_image_from_file(colour, x_0, y_0, file_path) ==
  /\ Ready
  /\ op' = "BT_draw_image_from_file"
  /\ args' = <<colour, x_0, y_0, file_path>>
  /\ IF x_0 < 0 \/ x_0 > 177 \/ y_0 < 0 \/ y_0 > 127 \/ (colour # 0 /\ colour # 1)
       THEN Reject(-1)
       ELSE /\ \E beyond \in (IF draw_image_oob(file_path) = {} THEN {0} ELSE BeyondBytes) :
                 Exchange(<<draw_image_from_file_cmd(colour, x_0, y_0, file_path,
                                                     message_id_counter, beyond)>>, ZeroReply)
            /\ message_id_counter' = message_id_counter + 1
            /\ checkFailed' = FALSE
            /\ oob' = draw_image_oob(file_path)
            /\ ret' = <<StatusResult(reply')>>
  /\ Idle

DisplaySlots == {0, 1}

store_current_display_cmd(no, ctr) ==
  <<LC0(8), 0, CounterLo(ctr), CounterHi(ctr), 0, 0, 0, opUI_DRAW, STORE, UByte(no)>>

BT_store_current_display(no) ==
  /\ Ready
  /\ op' = "BT_store_current_display"
  /\ args' = <<no>>
  /\ Exchange(<<store_current_display_cmd(no, message_id_counter)>>, ZeroReply)
  /\ message_id_counter' = message_id_counter + 1
  /\ checkFailed' = FALSE
  /\ oob' = {}
  /\ ret' = <<StatusResult(reply')>>
  /\ Idle

restore_previous_display_cmd(no, ctr) ==
  <<LC0(10), 0, CounterLo(ctr), CounterHi(ctr), 0, 0, 0,
    opUI_DRAW, RESTORE, UByte(no), opUI_DRAW, UPDATE>>

BT_restore_previous_display(no) ==
  /\ Ready
  /\ op' = "BT_restore_previous_display"
  /\ args' = <<no>>
  /\ Exchange(<<restore_previous_display_cmd(no, message_id_counter)>>, ZeroReply)
  /\ message_id_counter' = message_id_counter + 1
  /\ checkFailed' = FALSE
  /\ oob' = {}
  /\ ret' = <<StatusResult(reply')>>
  /\ Idle

\* ------------------------------------------------------------------------
\* System commands
\* ------------------------------------------------------------------------
ListPathLens == {1, 1012}

list_files_cmd(path, ctr) ==
  LET path_len == strnlen(path, 1011)
      buf == <<LX_byte1(8 + path_len - 2 + 1), LX_byte2(8 + path_len - 2 + 1),
               CounterLo(ctr), CounterHi(ctr), SYSTEM_COMMAND_REPLY, LIST_FILES,
               LX_byte1(1012), LX_byte2(1012)>>
             \o SubSeq(path, 1, path_len) \o <<0>>
  IN SubSeq(buf, 1, 8 + path_len + 1)

\* the characters strncpy(dst, &rep[from], n) takes: up to the first NUL,
\* at most n, bytes past the modelled reply being the zeros of the memset
RECURSIVE strncpy_from(_, _, _)
strncpy_from(rep, from, n) ==
  IF n <= 0 \/ from >= Len(rep) THEN <<>>
  ELSE IF B(rep, from) = 0 THEN <<>>
  ELSE <<B(rep, from)>> \o strncpy_from(rep, from + 1, n - 1)

\* <<return value>> or <<return value, *msg_reply>>
list_files_result(rep, allocOk) ==
  IF SChar(B(rep, 4)) = SYSTEM_REPLY
    THEN LET msg_length == LenField(rep) + 2
         IN IF ~allocOk THEN <<-1>>
            ELSE IF SChar(B(rep, 6)) = SUCCESS \/ SChar(B(rep, 6)) = END_OF_FILE
              THEN <<SChar(B(rep, 6)), strncpy_from(rep, 12, msg_length - 11)>>
              ELSE <<SChar(B(rep, 6)), <<>> >>
    ELSE <<SChar(B(rep, 4))>>

BT_list_files(path, allocOk) ==
  /\ Ready
  /\ op' = "BT_list_files"
  /\ args' = <<path>>
  /\ Exchange(<<list_files_cmd(path, message_id_counter)>>, ZeroReply)
  /\ message_id_counter' = message_id_counter + 1
  /\ checkFailed' = FALSE
  /\ oob' = {}
  /\ ret' = list_files_result(reply', allocOk)
  /\ Idle

\* "/home/root/lms2012/apps", ".../prjs", ".../tools"
p1 == <<47, 104, 111, 109, 101, 47, 114, 111, 111, 116, 47,
        108, 109, 115, 50, 48, 49, 50, 47, 97, 112, 112, 115>>
p2 == <<47, 104, 111, 109, 101, 47, 114, 111, 111, 116, 47,
        108, 109, 115, 50, 48, 49, 50, 47, 112, 114, 106, 115>>
p3 == <<47, 104, 111, 109, 101, 47, 114, 111, 111, 116, 47,
        108, 109, 115, 50, 48, 49, 50, 47, 116, 111, 111, 108, 115>>

\* "/home/root/lms2012/"
LmsDir == SubSeq(p1, 1, 19)

\* variant: the first prefix is "/home/root/lms2012/app", as the error
\* message spells it
upload_path_rejected_app(dest) ==
  /\ dest # <<>> /\ dest[1] = 47
  /\ ~strncmp_eq(SubSeq(p1, 1, 22), dest, 22)
  /\ ~strncmp_eq(p2, dest, Len(p2))
  /\ ~strncmp_eq(p3, dest, Len(p3))

\* the test that makes BT_upload_file return -1 at once
upload_path_rejected(dest) ==
  /\ dest # <<>> /\ dest[1] = 47
  /\ ~strncmp_eq(p1, dest, Len(p1))
  /\ ~strncmp_eq(p2, dest, Len(p2))
  /\ ~strncmp_eq(p3, dest, Len(p3))

\* byte i (from 0) of the source file
FileByte(i) == (7 * i + 3) % 256

\* <<dest, length of src at stat(), fopen(src) succeeds>>:
\* "a", "", ".../prjs/s", ".../apps", ".../tools/x", a 1012-character path
\* under .../prjs, then "/tmp", ".../appz", ".../sys/x", ".../app"
UploadArgs ==
  { << <<97>>, 3, TRUE >>,
    << <<>>, 0, TRUE >>,
    << p2 \o <<47, 115>>, 2500, TRUE >>,
    << p1, 1018, TRUE >>,
    << p3 \o <<47, 120>>, 0, TRUE >>,
    << p2 \o <<47>> \o PathOf(988), 1017, TRUE >>,
    << <<97>>, 3, FALSE >>,
    << <<47, 116, 109, 112>>, 3, TRUE >>,
    << LmsDir \o <<97, 112, 112, 122>>, 3, TRUE >>,
    << LmsDir \o <<115, 121, 115, 47, 120>>, 3, TRUE >>,
    << LmsDir \o <<97, 112, 112>>, 3, TRUE >> }

upload_begin_cmd(dest, size, ctr) ==
  LET path_len == strnlen(dest, 1011)
      buf == <<LX_byte1(10 + path_len - 2 + 1), LX_byte2(10 + path_len - 2 + 1),
               CounterLo(ctr), CounterHi(ctr), SYSTEM_COMMAND_REPLY, BEGIN_DOWNLOAD,
               LX_byte1(size), LX_byte2(size), LX_byte3(size), LX_byte4(size)>>
             \o SubSeq(dest, 1, path_len) \o <<0>>
  IN SubSeq(buf, 1, 10 + path_len + 1)

\* variant: chunks one byte short of PARTITION_SIZE
upload_remainder_short(size) ==
  IF size > PARTITION_SIZE - 1 THEN PARTITION_SIZE - 1 ELSE size

\* remainder = size > PARTITION_SIZE ? PARTITION_SIZE : size
upload_remainder(size) == IF size > PARTITION_SIZE THEN PARTITION_SIZE ELSE size

\* the file size a BEGIN_DOWNLOAD frame declares (bytes 6..9)
DeclaredSize(frame) == Int32At(frame, 6)

\* BT_upload_file from entry up to the first test of the while loop
BT_upload_file_call(dest, srcSize, srcReadable) ==
  /\ Ready
  /\ op' = "BT_upload_file"
  /\ args' = <<dest>>
  /\ ctr0' = message_id_counter
  /\ IF upload_path_rejected(dest)
       THEN /\ Reject(-1)
            /\ up' = [NoUpload EXCEPT !.dest = dest,
                                      !.src = [size |-> srcSize, readable |-> srcReadable]]
            /\ pc' = "idle"
       ELSE /\ Exchange(<<upload_begin_cmd(dest, srcSize, message_id_counter)>>, ZeroReply)
            /\ message_id_counter' = message_id_counter + 1
            /\ checkFailed' = FALSE
            /\ oob' = {}
            /\ LET started == [NoUpload EXCEPT
                                 !.dest = dest,
                                 !.src = [size |-> srcSize, readable |-> srcReadable],
                                 !.size = srcSize,
                                 !.declared = DeclaredSize(sent'[1]),
                                 !.cmds = <<B(sent'[1], 5)>>,
                                 !.acked = readOk']
               IN IF SChar(B(reply', 4)) # SYSTEM_REPLY
                    THEN ret' = <<SChar(B(reply', 4))>> /\ pc' = "idle" /\ up' = started
                  ELSE IF SChar(B(reply', 6)) # SUCCESS
                    THEN ret' = <<SChar(B(reply', 6))>> /\ pc' = "idle" /\ up' = started
                  ELSE IF ~srcReadable
                    THEN ret' = <<-1>> /\ pc' = "idle"
                         /\ up' = [started EXCEPT !.handle = SChar(B(reply', 8))]
                  ELSE IF upload_remainder(srcSize) > 0
                    THEN /\ ret' = <<>>
                         /\ pc' = "upload"
                         /\ \E g \in {0, 238} :
                              up' = [started EXCEPT
                                       !.handle = SChar(B(reply', 8)),
                                       !.remainder = upload_remainder(srcSize),
                                       !.fp = "open",
                                       !.buffer = [i \in 1..PARTITION_SIZE |-> g]]
                    ELSE /\ ret' = <<SChar(B(reply', 6))>>
                         /\ pc' = "idle"
                         /\ up' = [started EXCEPT !.handle = SChar(B(reply', 8)),
                                                  !.fp = "closed",
                                                  !.done = TRUE]
  /\ UNCHANGED socket

BT_upload_file(dest, srcSize, srcReadable) ==
  BT_upload_file_call(dest, srcSize, srcReadable) /\ UNCHANGED progvars

\* byte counts fread(buffer, 1, remainder, fp) may return
FreadCounts(remainder) == {remainder, remainder \div 2}

\* buffer after fread stored n bytes read at file position pos
upload_fread(buffer, pos, n) ==
  [i \in 1..PARTITION_SIZE |-> IF i <= n THEN FileByte(pos + i - 1) ELSE buffer[i]]

upload_continue_cmd(handle, buffer, remainder, ctr) ==
  <<LX_byte1(7 + remainder - 2), LX_byte2(7 + remainder - 2),
    CounterLo(ctr), CounterHi(ctr), SYSTEM_COMMAND_REPLY, CONTINUE_DOWNLOAD,
    LX_byte1(handle)>> \o SubSeq(buffer, 1, remainder)

\* size -= n
upload_size_after(size, n, remainder) == size - n

\* the reply in the buffer is the brick's END_OF_FILE acknowledgement of
\* the CONTINUE_DOWNLOAD sent last
AckedEndOfFile ==
  /\ up.chunks # <<>>
  /\ readOk
  /\ B(reply, 4) = SYSTEM_REPLY
  /\ B(reply, 6) = END_OF_FILE

\* one pass through the body of the while loop, and the return after the
\* loop when its test fails
BT_upload_file_loop_call ==
  /\ pc = "upload"
  /\ Len(up.chunks) < MaxChunks
  /\ op' = "BT_upload_file"
  /\ UNCHANGED args
  /\ \E n \in (IF up.stalled THEN {0} ELSE FreadCounts(up.remainder)) :
       LET buf == upload_fread(up.buffer, up.pos, n)
           size2 == upload_size_after(up.size, n, up.remainder)
           rem2 == upload_remainder(size2)
           sentNow == [up EXCEPT
                         !.buffer = buf,
                         !.pos = up.pos + n,
                         !.cmds = Append(up.cmds, B(sent'[1], 5)),
                         !.chunks = Append(up.chunks, Len(sent'[1]) - 7),
                         !.offs = Append(up.offs, up.pos),
                         !.afterEof = up.afterEof \/ AckedEndOfFile,
                         !.stalled = (n = 0),
                         !.full = up.full /\ n = up.remainder]
       IN /\ Exchange(<<upload_continue_cmd(up.handle, buf, up.remainder,
                                            message_id_counter)>>, {reply})
          /\ message_id_counter' = message_id_counter + 1
          /\ IF SChar(B(reply', 4)) # SYSTEM_REPLY
               THEN /\ ret' = <<SChar(B(reply', 4))>> /\ pc' = "idle"
                    /\ up' = [sentNow EXCEPT !.acked = up.acked /\ readOk']
             ELSE IF SChar(B(reply', 6)) # SUCCESS /\ SChar(B(reply', 6)) # END_OF_FILE
               THEN /\ ret' = <<SChar(B(reply', 6))>> /\ pc' = "idle"
                    /\ up' = [sentNow EXCEPT !.acked = up.acked /\ readOk']
             ELSE IF rem2 > 0
               THEN /\ ret' = <<>> /\ pc' = "upload"
                    /\ up' = [sentNow EXCEPT !.acked = up.acked /\ readOk',
                                             !.size = size2, !.remainder = rem2]
               ELSE /\ ret' = <<SChar(B(reply', 6))>> /\ pc' = "idle"
                    /\ up' = [sentNow EXCEPT !.acked = up.acked /\ readOk',
                                             !.size = size2, !.remainder = rem2,
                                             !.fp = "closed",
                                             !.done = TRUE]
  /\ checkFailed' = FALSE
  /\ oob' = {}
  /\ UNCHANGED <<socket, ctr0>>

\* the loop of an upload called by a caller other than the converter
BT_upload_file_loop == BT_upload_file_loop_call /\ UNCHANGED progvars

Next ==
  \/ \E c \in BOOLEAN : BT_open(c)
  \/ BT_close
  \/ \E n \in Names : BT_setEV3name(n)
  \/ \E t \in ToneInputs : BT_play_tone_sequence(t)
  \/ \E a \in MotorArgs : BT_motor_port_start(a[1], a[2])
  \/ \E a \in StopArgs : BT_motor_port_stop(a[1], a[2])
  \/ \E b \in BrakeModes : BT_all_stop(b)
  \/ \E a \in DriveArgs : BT_drive(a[1], a[2], a[3])
  \/ \E a \in TurnArgs : BT_turn(a[1], a[2], a[3], a[4])
  \/ \E a \in TimedArgs : BT_timed_motor_port_start(a[1], a[2], a[3], a[4], a[5])
  \/ \E a \in TimedV2Args : BT_timed_motor_port_start_v2(a[1], a[2], a[3])
  \/ \E sp \in SensorPorts : BT_get_type_mode(sp)
  \/ \E sp \in SensorPorts : BT_read_touch_sensor(sp)
  \/ \E sp \in SensorPorts : BT_read_colour_sensor(sp)
  \/ \E sp \in SensorPorts : BT_read_colour_sensor_RGB(sp)
  \/ \E sp \in SensorPorts : BT_read_ultrasonic_sensor(sp)
  \/ \E sp \in SensorPorts : BT_read_gyro_sensor(sp)
  \/ \E a \in SoundArgs : BT_play_sound_file(PathOf(a[1]), a[2])
  \/ \E c \in LedColours : BT_set_LED_colour(c)
  \/ \E a \in DrawArgs : BT_draw_image_from_file(a[1], a[2], a[3], PathOf(a[4]))
  \/ \E n \in DisplaySlots : BT_store_current_display(n)
  \/ \E n \in DisplaySlots : BT_restore_previous_display(n)
  \/ \E n \in ListPathLens, ok \in BOOLEAN : BT_list_files(PathOf(n), ok)
  \/ \E a \in UploadArgs : BT_upload_file(a[1], a[2], a[3])
  \/ BT_upload_file_loop

Spec == Init /\ [][Next]_vars

\* BT_upload_file does not give control back between two passes of its
\* while loop: a pass that can be taken is taken
SpecFair == Spec /\ WF_vars(BT_upload_file_loop)

\* ------------------------------------------------------------------------
\* The converter (src/rsfConverter.c)
\* ------------------------------------------------------------------------
libvars == <<message_id_counter, socket, op, ret, checkFailed, sent,
             nreads, reply, readOk, prevCtr, firstCtr, oob, ctr0, pc, up,
             args, writeOk>>

\* variant: a buffer of 64 KiB
BUFFER_SIZE_64K == 64 * 1024

\* sizeof(buffer)
BUFFER_SIZE == 65535

\* lengths of the raw PCM stream
RawLens == {0, 1, 255, 256, 65535, 65536, 131070, 131071, 140000}

\* argc values: no argument, one file name, a file name and the address
\* of the brick
ArgcValues == {1, 2, 3}

\* the length of a file <name>_<i>.rsf left on disk by an earlier run
\* (0: there is none)
PriorLens == {0, 100, 70000}

\* the recordings that are converted with an address given
UploadRaws == {0, 1, 256}

\* the length of the output file after open(str, O_CREAT | O_WRONLY, 0644),
\* write(out_fd, str, 8), write(out_fd, buffer, size) and close: bytes of
\* an existing file beyond the ones written stay
rsf_file_len(prior, size) == IF prior > 8 + size THEN prior ELSE 8 + size

\* argv[1] up to its last dot: "a"
ConvName == <<97>>

\* sprintf(str2, "%s_%d.rsf", name, i);
\* sprintf(str, "/home/root/lms2012/prjs/sound/%s", str2)
rsfConverter_dest(i) ==
  p2 \o <<47, 115, 111, 117, 110, 100, 47>> \o ConvName \o <<95>>
     \o <<48 + i>> \o <<46, 114, 115, 102>>

\* read(in_fd, buffer, sizeof(buffer)) with `avail` bytes left in the file:
\* all that fits the buffer, or fewer; 0 at end of file
ReadCounts(avail) ==
  { Min(avail, BUFFER_SIZE), Min(avail, 32768), Min(avail, 257) }

\* variant: the sample count stored low byte first
rsf_header_le(size) ==
  <<1, 0, size % 256, UByte(size \div 256), 31, 64, 0, 0>>

\* str[0..7] as written in front of the samples
rsf_header(size) ==
  <<1, 0, UByte(size \div 256), size % 256, 31, 64, 0, 0>>

\* main() from entry to the first test of the while loop
rsfConverter_main(argc, ffmpegOk, rawOpens) ==
  /\ conv.pc = "start"
  /\ argc = 3 => conv.raw \in UploadRaws
  /\ IF argc # 2 /\ argc # 3
       THEN conv' = [conv EXCEPT !.pc = "exit", !.argc = argc, !.exit = <<-1>>]
     ELSE IF ~ffmpegOk
       THEN conv' = [conv EXCEPT !.pc = "exit", !.argc = argc, !.exit = <<-1>>]
     ELSE IF ~rawOpens
       THEN conv' = [conv EXCEPT !.pc = "exit", !.argc = argc, !.exit = <<-1>>]
     ELSE conv' = [conv EXCEPT !.pc = "loop", !.argc = argc, !.pos = 0,
                               !.segment_cnt = 0]
  /\ UNCHANGED <<libvars, player>>

\* one test of the while loop and, when read() returned a positive size,
\* one pass through its body; the return after the loop otherwise
rsfConverter_segment(outOpens) ==
  /\ conv.pc = "loop"
  /\ conv.segment_cnt < MaxSegments
  /\ \E n \in ReadCounts(conv.raw - conv.pos) :
       IF n > 0
         THEN IF ~outOpens
                THEN conv' = [conv EXCEPT !.pc = "exit", !.size = n,
                                          !.pos = conv.pos + n,
                                          !.segment_cnt = conv.segment_cnt + 1,
                                          !.exit = <<-1>>]
                ELSE conv' = [conv EXCEPT
                                !.size = n,
                                !.pos = conv.pos + n,
                                !.segment_cnt = conv.segment_cnt + 1,
                                !.files = Append(conv.files,
                                            [n |-> conv.segment_cnt + 1,
                                             header |-> rsf_header(n),
                                             off |-> conv.pos,
                                             count |-> n,
                                             len |-> rsf_file_len(conv.prior, n)])]
         ELSE conv' = [conv EXCEPT !.size = n,
                                   !.pc = IF conv.argc = 3 THEN "upload" ELSE "exit",
                                   !.exit = IF conv.argc = 3 THEN <<>> ELSE <<0>>]
  /\ UNCHANGED <<libvars, player>>

\* the results of the BT_upload_file calls that have returned, the one
\* that returned last included
rsfConverter_results ==
  IF conv.i > 1 THEN Append(conv.results, ret[1]) ELSE conv.results

\* if (argc == 3): BT_open(argv[2]) and the return when it fails
rsfConverter_open(connected) ==
  /\ conv.pc = "upload"
  /\ BT_open_call(connected)
  /\ IF ret' # <<0>>
       THEN conv' = [conv EXCEPT !.pc = "exit", !.exit = <<-1>>]
       ELSE conv' = [conv EXCEPT !.pc = "uploading", !.i = 1]
  /\ UNCHANGED player

\* one pass through the for loop: the call of BT_upload_file for segment i
\* (up to the first test of its while loop); its result is not looked at
rsfConverter_upload ==
  /\ conv.pc = "uploading"
  /\ conv.i <= conv.segment_cnt
  /\ BT_upload_file_call(rsfConverter_dest(conv.i), conv.files[conv.i].len, TRUE)
  /\ conv' = [conv EXCEPT !.i = conv.i + 1, !.results = rsfConverter_results]
  /\ UNCHANGED player

\* BT_upload_file called by the converter, inside its while loop
rsfConverter_upload_loop ==
  /\ conv.pc = "uploading"
  /\ BT_upload_file_loop_call
  /\ UNCHANGED progvars

\* the end of the for loop, BT_close() and return 0
rsfConverter_close ==
  /\ conv.pc = "uploading"
  /\ conv.i > conv.segment_cnt
  /\ BT_close_call
  /\ conv' = [conv EXCEPT !.pc = "exit", !.exit = <<0>>,
                           !.results = rsfConverter_results]
  /\ UNCHANGED player

InitConv ==
  /\ LibInit
  /\ player = NoPlayer
  /\ conv \in { [NoConv EXCEPT !.raw = r, !.prior = q] :
                  r \in RawLens, q \in PriorLens }

NextConv ==
  \/ \E argc \in ArgcValues, ffmpegOk \in BOOLEAN, rawOpens \in BOOLEAN :
        rsfConverter_main(argc, ffmpegOk, rawOpens)
  \/ \E outOpens \in BOOLEAN : rsfConverter_segment(outOpens)
  \/ \E connected \in BOOLEAN : rsfConverter_open(connected)
  \/ rsfConverter_upload
  \/ rsfConverter_upload_loop
  \/ rsfConverter_close

SpecConv == InitConv /\ [][NextConv]_vars

\* ------------------------------------------------------------------------
\* The player (src/rsfPlayer.c)
\* ------------------------------------------------------------------------
\* argv[2]: "a", "song"
PlayerNames == { <<97>>, <<115, 111, 110, 103>> }

\* the number sscanf reads from argv[3]; every request takes one message
\* counter
PlayerSegments == 0..MaxCounter

\* the number sscanf reads from argv[4]
PlayerVolumes == {0, 50, 100}

\* argc values: one argument missing, all four given
PlayerArgcValues == {4, 5}

\* what "%d" prints for a positive number
RECURSIVE Digits(_)
Digits(n) == IF n < 10 THEN <<48 + n>> ELSE Digits(n \div 10) \o <<48 + (n % 10)>>

\* sprintf(str, "/home/root/lms2012/prjs/sound/%s_%d", argv[2], i)
rsfPlayer_path(name, i) ==
  p2 \o <<47, 115, 111, 117, 110, 100, 47>> \o name \o <<95>> \o Digits(i)

\* variant: sleep(8) after every request, the last one included
rsfPlayer_sleep_always(i, segment_cnt) == 8

\* the seconds slept after request i: if (i < segment_cnt) sleep(8)
rsfPlayer_sleep(i, segment_cnt) == IF i < segment_cnt THEN 8 ELSE 0

\* main() from entry to the first test of the for loop
rsfPlayer_main(argc, connected) ==
  /\ player.pc = "start"
  /\ IF argc # 5
       THEN /\ player' = [player EXCEPT !.pc = "exit", !.exit = <<-1>>]
            /\ UNCHANGED libvars
       ELSE /\ BT_open_call(connected)
            /\ IF ret' # <<0>>
                 THEN player' = [player EXCEPT !.pc = "exit", !.exit = <<-1>>]
                 ELSE player' = [player EXCEPT !.pc = "loop", !.i = 1]
  /\ UNCHANGED conv

\* one pass through the body of the for loop
rsfPlayer_play ==
  /\ player.pc = "loop"
  /\ player.i <= player.segment_cnt
  /\ BT_play_sound_file_call(rsfPlayer_path(player.name, player.i), player.volumn)
  /\ player' = [player EXCEPT
                  !.calls = Append(player.calls,
                              <<rsfPlayer_path(player.name, player.i),
                                player.volumn>>),
                  !.sleeps = Append(player.sleeps,
                               rsfPlayer_sleep(player.i, player.segment_cnt)),
                  !.i = player.i + 1]
  /\ UNCHANGED conv

\* the end of the for loop, BT_close() and return 0
rsfPlayer_close ==
  /\ player.pc = "loop"
  /\ player.i > player.segment_cnt
  /\ BT_close_call
  /\ player' = [player EXCEPT !.pc = "exit", !.closed = TRUE, !.exit = <<0>>]
  /\ UNCHANGED conv

InitPlayer ==
  /\ LibInit
  /\ conv = NoConv
  /\ player \in { [NoPlayer EXCEPT !.name = n, !.segment_cnt = c, !.volumn = v] :
                    n \in PlayerNames, c \in PlayerSegments, v \in PlayerVolumes }

NextPlayer ==
  \/ \E argc \in PlayerArgcValues, connected \in BOOLEAN :
        rsfPlayer_main(argc, connected)
  \/ rsfPlayer_play
  \/ rsfPlayer_close

SpecPlayer == InitPlayer /\ [][NextPlayer]_vars

\* ------------------------------------------------------------------------
\* Properties
\* ------------------------------------------------------------------------
RECURSIVE SumSeq(_)
SumSeq(q) == IF q = <<>> THEN 0 ELSE Head(q) + SumSeq(Tail(q))

CeilDiv(a, b) == (a + b - 1) \div b

HasPrefix(q, pre) == Len(q) >= Len(pre) /\ SubSeq(q, 1, Len(pre)) = pre

\* the functions that send a direct command and return a status or value
DirectOps ==
  { "BT_setEV3name", "BT_play_tone_sequence", "BT_motor_port_start",
    "BT_motor_port_stop", "BT_all_stop", "BT_drive", "BT_turn",
    "BT_timed_motor_port_start", "BT_timed_motor_port_start_v2",
    "BT_read_touch_sensor", "BT_read_colour_sensor", "BT_read_colour_sensor_RGB",
    "BT_read_ultrasonic_sensor", "BT_read_gyro_sensor", "BT_play_sound_file",
    "BT_set_LED_colour", "BT_draw_image_from_file", "BT_store_current_display",
    "BT_restore_previous_display" }

\* C1: every frame written carries the counter of the frame written before
\* it plus one (mod 2^16), whatever the replies were.
C1_CounterAdvancesEveryFrame ==
  \A k \in 1..Len(sent) :
     LET p == IF k = 1 THEN prevCtr ELSE CtrField(sent[k - 1])
     IN p # -1 => CtrField(sent[k]) = (p + 1) % 65536

\* C2: in every frame written, the little-endian u16 in bytes 0..1 equals the
\* number of bytes written for that frame minus 2.
C2_LengthFieldIsLengthMinus2 ==
  \A k \in 1..Len(sent) : LenField(sent[k]) = Len(sent[k]) - 2

\* C2 witness: a play-sound frame whose path was cut at 1011 characters, 1024
\* bytes in all, has been written.
C2_Witness ==
  /\ op = "BT_play_sound_file"
  /\ Len(sent) = 1
  /\ Len(sent[1]) = 1024

\* C3: no frame written is longer than 1024 bytes and no function stores
\* outside its 1024-byte command buffer.
C3_FramesFitCommandBuffer ==
  /\ oob = {}
  /\ \A k \in 1..Len(sent) : Len(sent[k]) <= CMD_SIZE

\* C4: a direct-command function whose reply has a byte 4 other than 0x02
\* returns -1.
C4_DirectErrorReturnsMinus1 ==
  (op \in DirectOps /\ sent # <<>> /\ readOk /\ B(reply, 4) # 2) => ret = <<-1>>

\* C5: a call rejected by the function's own argument check writes nothing,
\* reads nothing and leaves the message counter as it was.
C5_RejectedCallDoesNoIO ==
  checkFailed => (sent = <<>> /\ nreads = 0 /\ message_id_counter = ctr0)

\* C6: while every fread is complete and every frame is acknowledged, an
\* upload of a file of S bytes is one BEGIN_DOWNLOAD followed by
\* CONTINUE_DOWNLOAD frames only; chunk k starts at file offset
\* (k-1)*1017, carries at most 1017 bytes, exactly 1017 when another chunk
\* follows, and its payload is that slice of the file; a finished upload
\* has sent ceil(S/1017) chunks.
C6_UploadChunksArePartitions ==
  (op = "BT_upload_file" /\ up.full /\ up.acked /\ ~checkFailed) =>
     LET n == Len(up.chunks)
     IN /\ up.cmds = <<BEGIN_DOWNLOAD>> \o [k \in 1..n |-> CONTINUE_DOWNLOAD]
        /\ \A k \in 1..n :
              /\ up.chunks[k] <= PARTITION_SIZE
              /\ k < n => up.chunks[k] = PARTITION_SIZE
              /\ up.offs[k] = (k - 1) * PARTITION_SIZE
        /\ n > 0 =>
              /\ Len(sent) = 1
              /\ SubSeq(sent[1], 8, Len(sent[1])) =
                   [i \in 1..up.chunks[n] |-> FileByte(up.offs[n] + i - 1)]
              /\ up.offs[n] + up.chunks[n] <= up.src.size
        /\ up.done => /\ n = CeilDiv(up.src.size, PARTITION_SIZE)
                      /\ SumSeq(up.chunks) = up.src.size

\* C6 witness: a 2500-byte file has been uploaded in chunks of 1017, 1017
\* and 466 bytes, all acknowledged.
C6_Witness ==
  /\ op = "BT_upload_file"
  /\ up.done /\ up.full /\ up.acked
  /\ up.src.size = 2500
  /\ up.chunks = <<1017, 1017, 466>>

\* C7: when an upload has run to completion, the payload lengths of its
\* CONTINUE_DOWNLOAD frames add up to the size declared in BEGIN_DOWNLOAD.
C7_UploadTotalEqualsDeclared ==
  (op = "BT_upload_file" /\ up.done) => SumSeq(up.chunks) = up.declared

\* C8: when the reply to BEGIN_DOWNLOAD is not a system reply with status
\* SUCCESS, or the reply to a CONTINUE_DOWNLOAD is not a system reply with
\* status SUCCESS or END_OF_FILE, BT_upload_file has returned, and with a
\* value other than SUCCESS (0) and END_OF_FILE (8).
C8_UploadAbortReturnsError ==
  (op = "BT_upload_file" /\ sent # <<>> /\ readOk) =>
     LET badBegin == Len(up.cmds) = 1
                     /\ (B(reply, 4) # SYSTEM_REPLY \/ B(reply, 6) # SUCCESS)
         badChunk == Len(up.cmds) > 1
                     /\ (B(reply, 4) # SYSTEM_REPLY
                         \/ B(reply, 6) \notin {SUCCESS, END_OF_FILE})
     IN (badBegin \/ badChunk) =>
           (pc = "idle" /\ ret # <<>> /\ ret[1] \notin {SUCCESS, END_OF_FILE})

\* destination paths the documentation allows
PathAllowed(dest) ==
  \/ dest = <<>>
  \/ dest[1] # 47
  \/ HasPrefix(dest, p1)
  \/ HasPrefix(dest, p2)
  \/ HasPrefix(dest, p3)

\* C9: BT_upload_file rejects its destination exactly when it is absolute
\* and begins with none of the three allowed directories; a rejected call
\* returns -1, sends and reads nothing and leaves the counter unchanged; an
\* accepted call sends its BEGIN_DOWNLOAD frame.
C9_UploadPathCheck ==
  (op = "BT_upload_file" /\ Len(up.cmds) <= 1) =>
     /\ checkFailed <=> ~PathAllowed(up.dest)
     /\ checkFailed =>
          (ret = <<-1>> /\ sent = <<>> /\ nreads = 0 /\ message_id_counter = ctr0)
     /\ ~checkFailed =>
          (Len(sent) = 1 /\ B(sent[1], 5) = BEGIN_DOWNLOAD
           /\ message_id_counter = ctr0 + 1)

\* C9 witness: the absolute path /home/root/lms2012/sys/x has been rejected.
C9_Witness ==
  /\ op = "BT_upload_file"
  /\ checkFailed
  /\ up.dest = LmsDir \o <<115, 121, 115, 47, 120>>

\* C10: the first frame sent after a successful BT_open carries counter 1.
C10_FirstFrameCounterIsOne == firstCtr \in {-1, 1}

\* the functions that send a system command
SystemOps == { "BT_list_files", "BT_upload_file" }

\* the last step read a reply frame whose counter is not the counter of the
\* request it had just written
StrayRead ==
  /\ sent # <<>>
  /\ readOk
  /\ CtrField(reply) # CtrField(sent[Len(sent)])

\* C11: a reply whose bytes 2..3 differ from the counter of the request just
\* sent is never accepted: a direct-command function returns -1 (no success
\* result, no sensor value), a system-command function returns a value other
\* than SUCCESS and END_OF_FILE and an upload does not continue on it.
C11_StrayReplyNeverAccepted ==
  StrayRead =>
     /\ op \in DirectOps => ret = <<-1>>
     /\ op \in SystemOps =>
           (pc = "idle" /\ ret # <<>> /\ ret[1] \notin {SUCCESS, END_OF_FILE})

\* a write() or the read() of the last step reported an error or end of stream
TransportFailed ==
  /\ sent # <<>>
  /\ (~writeOk \/ ~readOk)

\* C12: when a write or read of the transport fails during an operation, the
\* operation has returned, and not with a success result: not 0 for a direct
\* command, neither SUCCESS nor END_OF_FILE for BT_list_files and
\* BT_upload_file; the upload sends no further frame.
C12_TransportErrorFailsOperation ==
  TransportFailed =>
     /\ pc = "idle"
     /\ op \in DirectOps => (ret # <<>> /\ ret[1] # 0)
     /\ op \in SystemOps => (ret # <<>> /\ ret[1] \notin {SUCCESS, END_OF_FILE})

\* the big-endian number in bytes 2..3 of an RSF header
RsfCount(header) == 256 * header[3] + header[4]

\* C13: every segment file written begins with 01 00, the sample count as a
\* 2-byte big-endian number, 1F 40, 00 00; the count is the number of
\* sample bytes written after the header and lies in 1..65535.
C13_RsfHeaderCountsSamples ==
  \A k \in 1..Len(conv.files) :
     LET f == conv.files[k]
     IN /\ Len(f.header) = 8
        /\ f.header[1] = 1 /\ f.header[2] = 0
        /\ f.header[5] = 31 /\ f.header[6] = 64
        /\ f.header[7] = 0 /\ f.header[8] = 0
        /\ f.header[3] \in 0..255 /\ f.header[4] \in 0..255
        /\ RsfCount(f.header) = f.count
        /\ f.count \in 1..65535

\* C13 witness: segments of 65535, 32768 and 257 samples have been written,
\* with headers FF FF, 80 00 and 01 01 in bytes 2..3.
C13_Witness ==
  /\ \E k \in 1..Len(conv.files) :
        conv.files[k].count = 65535 /\ SubSeq(conv.files[k].header, 3, 4) = <<255, 255>>
  /\ \E k \in 1..Len(conv.files) :
        conv.files[k].count = 32768 /\ SubSeq(conv.files[k].header, 3, 4) = <<128, 0>>
  /\ \E k \in 1..Len(conv.files) :
        conv.files[k].count = 257 /\ SubSeq(conv.files[k].header, 3, 4) = <<1, 1>>

\* C14: the segments written so far are numbered 1, 2, ... in order, each
\* holds between 1 and 65535 samples, segment 1 starts at the first sample
\* of the raw stream and every other one where the one before it ended;
\* when the converter has read to the end of the stream and exits with 0 the
\* segments cover the stream to its last sample, and an empty stream has
\* left no segment.
C14_SegmentsPartitionStream ==
  LET n == Len(conv.files)
  IN /\ \A k \in 1..n :
           /\ conv.files[k].n = k
           /\ conv.files[k].count \in 1..65535
           /\ conv.files[k].off = (IF k = 1 THEN 0
                                   ELSE conv.files[k - 1].off + conv.files[k - 1].count)
     /\ (conv.pc = "exit" /\ conv.exit = <<0>>) =>
           /\ n = conv.segment_cnt
           /\ SumSeq([k \in 1..n |-> conv.files[k].count]) = conv.raw
           /\ conv.raw = 0 <=> n = 0

\* C14 witness: a stream of 131071 samples has been converted into three
\* segments of 65535, 65535 and 1 samples.
C14_Witness ==
  /\ conv.pc = "exit" /\ conv.exit = <<0>>
  /\ conv.raw = 131071
  /\ Len(conv.files) = 3
  /\ conv.files[1].count = 65535
  /\ conv.files[2].count = 65535
  /\ conv.files[3].count = 1

\* C15: BT_set_LED_colour sends the 10-byte frame opUI_WRITE LED <pattern>
\* for each of the patterns 0..9 and returns -1 without sending for every
\* other value.
C15_LedAcceptsAllPatterns ==
  op = "BT_set_LED_colour" =>
     IF args[1] \in 0..9
       THEN /\ Len(sent) = 1
            /\ Len(sent[1]) = 10
            /\ SubSeq(sent[1], 8, 10) = <<opUI_WRITE, LED, args[1]>>
       ELSE /\ ret = <<-1>>
            /\ sent = <<>>

\* C16: BT_setEV3name sends a frame exactly for names of at most 12 bytes;
\* the frame is length, counter, 00, 00 00, D4 08 84, the name and one 00; a
\* longer name makes it return -1 with nothing written or read and the
\* counter unchanged.
C16_SetNameFrame ==
  op = "BT_setEV3name" =>
     LET name == args[1]
     IN IF Len(name) <= 12
          THEN /\ Len(sent) = 1
               /\ sent[1] = <<Len(name) + 9, 0, ctr0 % 256, (ctr0 \div 256) % 256,
                              0, 0, 0, 212, 8, 132>> \o name \o <<0>>
          ELSE /\ ret = <<-1>>
               /\ sent = <<>> /\ nreads = 0
               /\ message_id_counter = ctr0

\* C16 witness: a 12-character name has been sent in a frame of 23 bytes.
C16_Witness ==
  /\ op = "BT_setEV3name"
  /\ Len(args[1]) = 12
  /\ Len(sent) = 1
  /\ Len(sent[1]) = 23

\* C17: a call of BT_motor_port_start, BT_motor_port_stop or
\* BT_play_tone_sequence that its argument validation rejects returns -1.
C17_RejectedReturnsMinus1 ==
  (op \in {"BT_motor_port_start", "BT_motor_port_stop", "BT_play_tone_sequence"}
   /\ checkFailed) => ret = <<-1>>

\* number of entries of a tone table before the first one whose frequency
\* or duration is -1, where the function stops reading
ToneEnd(t) ==
  LET stops == { i \in 1..Len(t) : t[i][1] = -1 \/ t[i][2] = -1 }
  IN IF stops = {} THEN Len(t)
     ELSE (CHOOSE i \in stops : \A j \in stops : i <= j) - 1

ToneInRange(row) ==
  /\ row[1] >= 20 /\ row[1] <= 20000
  /\ row[2] >= 1 /\ row[2] <= 5000
  /\ row[3] >= 0 /\ row[3] <= 63

\* C18: BT_play_tone_sequence sends a frame exactly when every entry before
\* the end of the sequence has frequency in [20,20000], duration in [1,5000]
\* and volume in [0,63]; otherwise nothing at all is written.
C18_ToneSentIffAllInRange ==
  op = "BT_play_tone_sequence" =>
     LET t == args[1]
     IN IF \A i \in 1..ToneEnd(t) : ToneInRange(t[i])
          THEN Len(sent) = 1
          ELSE sent = <<>> /\ nreads = 0

\* C18 witness: the sequence (262,250,1), (20001,100,10) has been withheld
\* as a whole.
C18_Witness ==
  /\ op = "BT_play_tone_sequence"
  /\ args[1][1] = <<262, 250, 1>>
  /\ args[1][2] = <<20001, 100, 10>>
  /\ sent = <<>>
  /\ checkFailed

\* number of entries before the first one with -1 in any of its three fields
ToneEndAnyField(t) ==
  LET stops == { i \in 1..Len(t) : t[i][1] = -1 \/ t[i][2] = -1 \/ t[i][3] = -1 }
  IN IF stops = {} THEN Len(t)
     ELSE (CHOOSE i \in stops : \A j \in stops : i <= j) - 1

\* C19: an entry with -1 in any of its three fields ends the sequence: when
\* the entries before it are in range, the frame is sent and carries those
\* entries and no others.
C19_AnyMinusOneEndsSequence ==
  op = "BT_play_tone_sequence" =>
     LET t == args[1]
         n == ToneEndAnyField(t)
     IN (\A i \in 1..n : ToneInRange(t[i])) =>
           /\ Len(sent) = 1
           /\ Len(sent[1]) = 7 + 10 * n

\* the 10-byte group of one tone
ToneGroup(row) ==
  <<148, 1, row[3], 130, row[1] % 256, row[1] \div 256,
    130, row[2] % 256, row[2] \div 256, 150>>

\* C20: the frame of an accepted tone sequence with n entries before the
\* sentinel has length field 5 + 10n and, from byte 7, one group
\* 94 01 <volume> 82 <freq lo> <freq hi> 82 <duration lo> <duration hi> 96
\* per entry, in list order, and nothing after them.
C20_TonePayload ==
  (op = "BT_play_tone_sequence" /\ sent # <<>>) =>
     LET t == args[1]
         n == ToneEnd(t)
         f == sent[1]
     IN /\ LenField(f) = 5 + 10 * n
        /\ Len(f) = 7 + 10 * n
        /\ \A k \in 1..n : SubSeq(f, 10 * k - 2, 10 * k + 7) = ToneGroup(t[k])

\* C20 witness: the single tone (262, 250, 1) has been sent with the payload
\* 94 01 01 82 06 01 82 FA 00 96.
C20_Witness ==
  /\ op = "BT_play_tone_sequence"
  /\ args[1][1] = <<262, 250, 1>>
  /\ Len(sent) = 1
  /\ SubSeq(sent[1], 8, Len(sent[1])) = <<148, 1, 1, 130, 6, 1, 130, 250, 0, 150>>

\* the value the operand sublanguage assigns to the operand that starts at
\* byte i of frame f: a byte with the top two bits clear is a 6-bit signed
\* constant, tag 0x81 announces a signed byte, tag 0x82 a signed
\* little-endian 16-bit value
DecodeOperand(f, i) ==
  LET b == B(f, i)
  IN IF b < 64 THEN (IF b >= 32 THEN b - 64 ELSE b)
     ELSE IF b = 129 THEN SChar(B(f, i + 1))
     ELSE IF b = 130
       THEN LET w == B(f, i + 1) + 256 * B(f, i + 2)
            IN IF w >= 32768 THEN w - 65536 ELSE w
     ELSE -1000000

\* C21: every operand that carries a validated caller value decodes to that
\* value: tone volume, frequency and duration, the power of the motor
\* commands, the LED pattern and the colour, x and y of a drawn image.
C21_OperandsRoundTrip ==
  sent # <<>> =>
    LET f == sent[Len(sent)]
    IN /\ op = "BT_play_tone_sequence" =>
            \A k \in 1..ToneEnd(args[1]) :
               /\ DecodeOperand(f, 10 * k - 1) = args[1][k][3]
               /\ DecodeOperand(f, 10 * k) = args[1][k][1]
               /\ DecodeOperand(f, 10 * k + 3) = args[1][k][2]
       /\ op \in {"BT_motor_port_start", "BT_timed_motor_port_start",
                  "BT_timed_motor_port_start_v2"} =>
            DecodeOperand(f, 10) = args[2]
       /\ op = "BT_drive" => DecodeOperand(f, 10) = args[3]
       /\ op = "BT_turn" =>
            DecodeOperand(f, 10) = args[2] /\ DecodeOperand(f, 15) = args[4]
       /\ op = "BT_set_LED_colour" => DecodeOperand(f, 9) = args[1]
       /\ op = "BT_draw_image_from_file" =>
            /\ DecodeOperand(f, 9) = args[1]
            /\ DecodeOperand(f, 11) = args[2]
            /\ DecodeOperand(f, 14) = args[3]

PowerInRange(p) == p >= -100 /\ p <= 100

\* C22: BT_turn sends a frame only when lpower and rpower are both in
\* [-100,100]; otherwise it returns -1 and sends nothing. A frame it sends
\* carries opOUTPUT_POWER for lport with lpower, opOUTPUT_POWER for rport
\* with rpower, then opOUTPUT_START with the mask lport | rport.
C22_TurnPowerRange ==
  op = "BT_turn" =>
    /\ ~(PowerInRange(args[2]) /\ PowerInRange(args[4])) =>
          sent = <<>> /\ ret = <<-1>>
    /\ sent # <<>> =>
          SubSeq(sent[1], 8, Len(sent[1])) =
            <<164, 0, args[1], 129, args[2] % 256,
              164, 0, args[3], 129, args[4] % 256,
              166, 0, BitOr(args[1], args[3])>>

\* C23: BT_play_sound_file sends its frame only for a volume in [0,100] and
\* rejects any other volume without writing; a frame it sends is
\* opSOUND PLAY, 0x81 <volume>, 0x84, the path bytes and a terminating 00.
C23_SoundVolumeRange ==
  op = "BT_play_sound_file" =>
    /\ (args[2] < 0 \/ args[2] > 100) => sent = <<>> /\ nreads = 0
    /\ (sent # <<>> /\ Len(args[1]) <= 1011) =>
          SubSeq(sent[1], 8, Len(sent[1])) =
            <<148, 2, 129, args[2] % 256, 132>> \o args[1] \o <<0>>

\* C24: BT_timed_motor_port_start returns 0 whenever byte 4 of the reply is
\* 0x02, whatever the other reply bytes are, and -1 otherwise.
C24_TimedStartResult ==
  (op = "BT_timed_motor_port_start" /\ sent # <<>> /\ readOk) =>
     ret = (IF B(reply, 4) = 2 THEN <<0>> ELSE <<-1>>)

\* the two fields of the header of a direct command (bytes 5..6, little
\* endian): global bytes in bits 0..9, local bytes in bits 10..15
HeaderGlobal(f) == (B(f, 5) + 256 * B(f, 6)) % 1024
HeaderLocal(f) == (B(f, 5) + 256 * B(f, 6)) \div 1024

\* the payload of the composite timed command: power, start, wait on the
\* timer in local variable 0, stop, all on port_id
V2Payload(port_id, power, time) ==
  <<164, 0, port_id, 129, power % 256, 166, 0, port_id,
    opTIMER_WAIT, 130, time % 256, time \div 256, LV0(0),
    opTIMER_READY, LV0(0), 163, 0, port_id, 0>>

\* C25 as stated: the composite frame of BT_timed_motor_port_start_v2
\* reserves exactly 4 bytes of local memory and 0 bytes of global memory, and
\* its payload is opOUTPUT_POWER, opOUTPUT_START, opTIMER_WAIT(LC2(time),
\* LV0(0)), opTIMER_READY(LV0(0)), opOUTPUT_STOP on the caller's port.
C25_V2HeaderReserves4 ==
  (op = "BT_timed_motor_port_start_v2" /\ Len(sent) = 2) =>
     /\ HeaderLocal(sent[2]) = 4
     /\ HeaderGlobal(sent[2]) = 0
     /\ SubSeq(sent[2], 8, Len(sent[2])) = V2Payload(args[1], args[2], args[3])

\* C25 amended: the composite frame reserves exactly 10 bytes of local
\* memory and 0 bytes of global memory; the payload is as stated.
C25_V2HeaderReserves10 ==
  (op = "BT_timed_motor_port_start_v2" /\ Len(sent) = 2) =>
     /\ HeaderLocal(sent[2]) = 10
     /\ HeaderGlobal(sent[2]) = 0
     /\ SubSeq(sent[2], 8, Len(sent[2])) = V2Payload(args[1], args[2], args[3])

\* C25 witness: BT_timed_motor_port_start_v2(MOTOR_A, 50, 1000) has written
\* its composite frame, whose header bytes are 00 28.
C25_Witness ==
  /\ op = "BT_timed_motor_port_start_v2"
  /\ args = <<1, 50, 1000>>
  /\ Len(sent) = 2
  /\ Len(sent[2]) = 26
  /\ B(sent[2], 5) = 0 /\ B(sent[2], 6) = 40

\* positions in the frame of the global-variable operands of each read
GVPositions ==
  [o \in {"BT_get_type_mode", "BT_read_touch_sensor", "BT_read_colour_sensor",
          "BT_read_colour_sensor_RGB", "BT_read_ultrasonic_sensor",
          "BT_read_gyro_sensor"} |->
     CASE o = "BT_get_type_mode" -> {11, 12}
       [] o = "BT_read_colour_sensor_RGB" -> {14, 15, 16}
       [] OTHER -> {14}]

\* bytes the brick stores per value: one for a percentage and for the type
\* and the mode, four for a raw value (the RGB read places its three raw
\* values at offsets 0, 4 and 8)
GVWidth(o) ==
  IF o \in {"BT_get_type_mode", "BT_read_touch_sensor"} THEN 1 ELSE 4

\* offset named by a one-byte global-variable operand
GVOffset(b) == b - GV0(0)

\* C26: in every frame with global-variable operands the global memory
\* reserved in the header is at least offset + width of every value the
\* brick stores: 1 byte for touch, 4 for indexed colour, ultrasonic and gyro,
\* 12 for RGB, 2 for get-type-mode.
C26_GlobalMemoryCoversOperands ==
  (op \in DOMAIN GVPositions /\ sent # <<>>) =>
     \A i \in GVPositions[op] :
        /\ B(sent[1], i) >= GV0(0)
        /\ HeaderGlobal(sent[1]) >= GVOffset(B(sent[1], i)) + GVWidth(op)

\* the signed 32-bit integer with the little-endian bytes b0 b1 b2 b3
TwosComplement32(b0, b1, b2, b3) ==
  b0 + 256 * b1 + 65536 * b2
    + 16777216 * (IF b3 >= 128 THEN b3 - 256 ELSE b3)

\* C27: whenever byte 4 of the reply is 0x02, BT_read_gyro_sensor returns
\* reply bytes 5..8 read as a signed little-endian 32-bit integer.
C27_GyroDecode ==
  (op = "BT_read_gyro_sensor" /\ sent # <<>> /\ B(reply, 4) = 2) =>
     ret = <<TwosComplement32(B(reply, 5), B(reply, 6), B(reply, 7), B(reply, 8))>>

\* C27 witness: the reply bytes 00 00 00 80 have been returned as
\* -2147483648.
C27_Witness ==
  /\ op = "BT_read_gyro_sensor"
  /\ readOk
  /\ B(reply, 4) = 2
  /\ <<B(reply, 5), B(reply, 6), B(reply, 7), B(reply, 8)>> = <<0, 0, 0, 128>>
  /\ ret = <<-2147483647 - 1>>

\* the unsigned 32-bit integer with the little-endian bytes at offsets
\* i .. i + 3 of the reply (top byte below 0x80 in the replies considered)
U32At(rep, i) ==
  B(rep, i) + 256 * B(rep, i + 1) + 65536 * B(rep, i + 2) + 16777216 * B(rep, i + 3)

C29_DriveAndAllStopFrames ==
  /\ (op = "BT_drive" /\ sent # <<>>) =>
        LET f == sent[1]
            m == BitOr(args[1], args[2])
        IN /\ Len(sent) = 1
           /\ Len(f) = 15
           /\ SubSeq(f, 8, 15) = <<164, 0, m, 129, args[3] % 256, 166, 0, m>>
           /\ SChar(B(f, 11)) = args[3]
           /\ (ctr0 = 1 /\ args = <<1, 8, 50>>) =>
                 f = <<13, 0, 1, 0, 0, 0, 0, 164, 0, 9, 129, 50, 166, 0, 9>>
  /\ op = "BT_all_stop" =>
        /\ Len(sent) = 1
        /\ Len(sent[1]) = 11
        /\ SubSeq(sent[1], 8, 10) = <<163, 0, 15>>
        /\ (ctr0 = 1 /\ args = <<1>>) =>
              sent[1] = <<9, 0, 1, 0, 0, 0, 0, 163, 0, 15, 1>>

\* C29 witness: with the counter at 1, BT_drive(0x01, 0x08, 50) has written
\* its 15 bytes.
C29_Witness ==
  /\ op = "BT_drive"
  /\ ctr0 = 1
  /\ args = <<1, 8, 50>>
  /\ sent = <<<<13, 0, 1, 0, 0, 0, 0, 164, 0, 9, 129, 50, 166, 0, 9>>>>

\* what the touch read returns for a reply: decided by bytes 4 and 5 alone
TouchResult(rep) ==
  IF B(rep, 4) = 2 THEN (IF B(rep, 5) # 0 THEN 1 ELSE 0) ELSE -1

C31_ResourcesReleased ==
  /\ (op = "BT_upload_file" /\ pc = "idle") => up.fp # "open"
  /\ (op = "BT_open" /\ ret = <<-1>>) => socket \in {"none", "closed"}

\* C34: every frame after which an operation waits for a reply carries a
\* reply-expected type tag, 0x00 (direct) or 0x01 (system), the frame of
\* BT_play_tone_sequence included; and every write is followed by exactly
\* one read before the next write.
C34_RepliesOnlyAwaitedWhenRequested ==
  /\ nreads = Len(sent)
  /\ \A k \in 1..Len(sent) : B(sent[k], 4) \in {0, 1}
  /\ \A k \in 1..Len(sent) :
        B(sent[k], 4) = (IF op \in SystemOps THEN 1 ELSE 0)

\* C34 witness: BT_play_tone_sequence has written a frame with one tone, type
\* byte 0x00, and has read once.
C34_Witness ==
  /\ op = "BT_play_tone_sequence"
  /\ Len(sent) = 1
  /\ Len(sent[1]) = 17
  /\ B(sent[1], 4) = 0
  /\ nreads = 1

\* C32: once the brick has acknowledged a chunk with END_OF_FILE, no further
\* CONTINUE_DOWNLOAD is sent in that upload, and an upload reported as
\* finished (SUCCESS or END_OF_FILE returned after the loop) has had its last
\* chunk acknowledged END_OF_FILE.
C32_UploadEndsAtEndOfFile ==
  op = "BT_upload_file" =>
    /\ ~up.afterEof
    /\ (pc = "idle" /\ up.done /\ ret \in {<<SUCCESS>>, <<END_OF_FILE>>}) =>
          AckedEndOfFile

\* "/home/root/lms2012/prjs/sound/", then the name, "_" and the number k
\* (k below 10)
SoundSegmentPath(name, k) ==
  <<47, 104, 111, 109, 101, 47, 114, 111, 111, 116, 47,
    108, 109, 115, 50, 48, 49, 50, 47, 112, 114, 106, 115, 47,
    115, 111, 117, 110, 100, 47>> \o name \o <<95, 48 + k>>

\* C33: given a segment count n, the player issues exactly n play
\* requests, in order, for the paths <name>_1 .. <name>_n under the
\* brick's sound directory at the requested volume, waits 8 seconds
\* between two consecutive requests and not after the last one, and closes
\* the session afterwards; it issues none when the connection cannot be
\* opened
C33_PlayerPlaysSegmentsInOrder ==
  /\ Len(player.calls) = Len(player.sleeps)
  /\ \A k \in 1..Len(player.calls) :
       /\ k <= player.segment_cnt
       /\ player.calls[k] = <<SoundSegmentPath(player.name, k), player.volumn>>
       /\ player.sleeps[k] = (IF k < player.segment_cnt THEN 8 ELSE 0)
  /\ (player.pc = "loop" /\ player.calls # <<>>) =>
       /\ op = "BT_play_sound_file"
       /\ args = player.calls[Len(player.calls)]
       /\ sent # <<>>
       /\ SubSeq(sent[1], 13, Len(sent[1]) - 1)
            = SoundSegmentPath(player.name, Len(player.calls))
       /\ B(sent[1], 10) = player.volumn
  /\ player.exit = <<0>> =>
       /\ Len(player.calls) = player.segment_cnt
       /\ player.closed
       /\ socket = "closed"
  /\ player.exit = <<-1>> =>
       /\ player.calls = <<>>
       /\ ~player.closed
  /\ (player.pc # "start" /\ socket = "failed") =>
       /\ player.exit = <<-1>>
       /\ sent = <<>>

C33_Witness ==
  /\ player.exit = <<0>>
  /\ player.segment_cnt = 2
  /\ player.name = <<115, 111, 110, 103>>
  /\ player.sleeps = <<8, 0>>
  /\ Len(player.calls) = 2
  /\ socket = "closed"


C37_GyroErrorUnambiguous ==
  (op = "BT_read_gyro_sensor" /\ ret = <<-1>>) =>
     \/ args[1] > 8
     \/ B(reply, 4) # 2

\* C36: when the source file cannot be opened, BT_upload_file returns -1
\* without having sent any frame, and the message counter is unchanged
C36_UnreadableSourceSendsNothing ==
  (op = "BT_upload_file" /\ pc = "idle" /\ ~up.src.readable) =>
     /\ ret = <<-1>>
     /\ sent = <<>>
     /\ message_id_counter = ctr0

C38_SegmentFileLength ==
  \A k \in 1..Len(conv.files) :
     conv.files[k].len = 8 + RsfCount(conv.files[k].header)

\* C39: given a brick address, the converter exits with status 0 only if
\* every segment 1..n was written and uploaded, each BT_upload_file having
\* returned SUCCESS or END_OF_FILE
C39_ConverterReportsUploadFailure ==
  (conv.pc = "exit" /\ conv.exit = <<0>>) =>
     /\ Len(conv.files) = conv.segment_cnt
     /\ conv.argc = 3 =>
          /\ Len(conv.results) = conv.segment_cnt
          /\ \A k \in 1..Len(conv.results) :
               conv.results[k] \in {SUCCESS, END_OF_FILE}

====
